---- MODULE Spec2Model ----
(***************************************************************************)
(* RexTerm / dropterm: the I/O pump (TerminalThread), the PTY wrapper      *)
(* (TerminalEmulator) and the consumer (ShellWidget.append_output,         *)
(* closeEvent) as a state machine.                                         *)
(*                                                                         *)
(* Two threads run the code.  The pump thread executes TerminalThread.run; *)
(* the GUI thread executes the slots and event handlers of ShellWidget.    *)
(* A step of the pump is one access to a field another thread can touch    *)
(* (output_buffer, running, the pyte screen, the Qt event queue); CPython  *)
(* makes each such load or store atomic and nothing more.                  *)
(*                                                                         *)
(* output_received is connected with the default (auto) connection: an     *)
(* emit from run() is posted to the GUI thread's event queue, an emit from *)
(* stop(), which closeEvent calls on the GUI thread, calls append_output   *)
(* at once.                                                                *)
(*                                                                         *)
(* A token stands for a piece of the PTY byte stream: [id, k] with id the  *)
(* position in the stream and k what the piece is.                         *)
(***************************************************************************)
EXTENDS Integers, Sequences, FiniteSets, TLC

\* ---------------------------------------------------------------- bounds
MaxReads == 3          \* non-empty reads the PTY delivers in one run
MaxTime == 6           \* the time since the last emit saturates at MaxTime ms
history_lines == 2     \* TerminalEmulator.history_lines (scrollback_lines)
MaxPaste == 6          \* length of the clipboard text
MaxRenders == 2        \* render passes over one screen
MaxPieces == 2         \* markers and printable bytes in one byte stream

\* ------------------------------------------------------ program constants
buffer_time_threshold == 5      \* 0.005 s, in ms
buffer_size_threshold == 512
burst_time_threshold == 3       \* 0.003 s, in ms
close_grace_ms == 100           \* time.sleep(0.1) in close()

\* Pieces of the stream:
\*   "o"    one printable byte
\*   "T"    a line feed on the bottom row (pyte: index -> history.top.append)
\*   "B"    a reverse index on the top row (pyte: history.bottom.append)
\*   "E"    ESC[?1049h / ESC[?47h / ESC[?1047h
\*   "X"    ESC[?1049l / ESC[?47l / ESC[?1047l
\*   "Kh"   ESC[?1h / ESC[?66h
\*   "Kl"   ESC[?1l / ESC[?66l
\*   "O"    a burst of printable bytes, half the size threshold long
Kinds == {"o", "T", "B", "E", "X", "Kh", "Kl", "O"}

\* the pieces a run draws from: plain output, or output of a full-screen program
PlainKinds == {"o"}
ScreenKinds == {"T", "B", "E", "X"}
ModeKinds == {"Kh", "Kl"}
BurstKinds == {"o", "O"}

ByteLen(k) == IF k = "O" THEN buffer_size_threshold \div 2
              ELSE IF k \in {"E", "X"} THEN 8
              ELSE IF k \in {"Kh", "Kl"} THEN 5
              ELSE IF k = "B" THEN 2 ELSE 1

None == <<>>

\* TerminalEmulator(exit_callback=...): a callback is registered
exit_callback == TRUE

VARIABLES
    platform,              \* sys.platform: "win32" or "unix"
    clock,                 \* the latest time any thread has seen, in ms since
                           \* last_emit_time was set (the origin moves with it)
    running,               \* TerminalThread.running
    output_buffer,         \* TerminalThread.output_buffer
    terminal_running,      \* TerminalEmulator.running
    isalive,               \* pty_process.isalive()
    history_top,           \* screen.history.top
    history_bottom,        \* screen.history.bottom
    pc,                    \* position of the pump thread in run()
    output,                \* run(): output / read(): raw_data
    buf_tmp,               \* run(): the operand loaded by output_buffer += output
    current_time,          \* run(): current_time
    adjusted_threshold,    \* run(): adjusted_threshold
    last_emit_time,        \* run(): last_emit_time
    events,                \* queued output_received emissions (GUI event queue)
    gui_pc,                \* position of the GUI thread
    application_mode,      \* ShellWidget.application_mode
    in_alternate_screen,   \* ShellWidget.in_alternate_screen
    alt_history_marker,    \* ShellWidget._alt_history_marker (None or <<top, bottom>>)
    n_read,                \* pieces the pump has read from the PTY
    n_fed,                 \* pieces stream.feed has finished
    received,              \* ids handed to append_output, in order
    exit_calls,            \* invocations of exit_callback
    obs,                   \* what has been observed so far (history variables)
    cols,                  \* TerminalEmulator.cols
    rows,                  \* TerminalEmulator.rows
    pty_winsize,           \* the PTY window size, <<rows, cols>>
    screen_size,           \* the pyte screen, <<lines, columns>>
    ui,                    \* what the GUI-side handlers did last (history variable)
    peer                   \* the fields of a second session in the same window

vars == <<platform, clock, running, output_buffer,
          terminal_running, isalive, history_top, history_bottom, pc, output,
          buf_tmp, current_time, adjusted_threshold, last_emit_time, events,
          gui_pc, application_mode, in_alternate_screen, alt_history_marker,
          n_read, n_fed, received, exit_calls, obs, cols, rows, pty_winsize,
          screen_size, ui, peer>>

pump_locals == <<output, buf_tmp, current_time, adjusted_threshold, last_emit_time>>
widget_vars == <<application_mode, in_alternate_screen, alt_history_marker,
                 history_bottom, received>>
config_vars == <<platform>>
geom_vars == <<cols, rows, pty_winsize, screen_size>>

\* ---------------------------------------------------------------- helpers
Min(a, b) == IF a < b THEN a ELSE b

RECURSIVE StrLen(_)
\* len(text) in bytes
StrLen(s) == IF s = <<>> THEN 0 ELSE ByteLen(Head(s).k) + StrLen(Tail(s))

Ids(s) == {s[i].id : i \in 1..Len(s)}

IdSeq(s) == [i \in 1..Len(s) |-> s[i].id]

Contains(s, k) == \E i \in 1..Len(s) : s[i].k = k

RECURSIVE Flatten(_)
Flatten(q) == IF q = <<>> THEN <<>> ELSE IdSeq(Head(q)) \o Flatten(Tail(q))

\* deque(maxlen=history_lines).append
DequeAppend(h, r) ==
    IF Len(h) >= history_lines THEN Tail(Append(h, r)) ELSE Append(h, r)

RECURSIVE PopWhileLonger_Oldest(_, _)
\* PopWhileLonger with popleft() for pop(): the oldest rows are removed
PopWhileLonger_Oldest(h, n) ==
    IF Len(h) > n THEN PopWhileLonger_Oldest(Tail(h), n) ELSE h

RECURSIVE PopWhileLonger(_, _)
\* while len(h) > n: h.pop()
PopWhileLonger(h, n) ==
    IF Len(h) > n THEN PopWhileLonger(SubSeq(h, 1, Len(h) - 1), n) ELSE h

\* ---------------------------------------------------------- initial values
\* TerminalEmulator(cols=80, rows=24, ...) at shell_widget.py line 57; the PTY
\* is spawned without dimensions and gets the library default of 24 x 80
default_cols == 80
default_rows == 24

\* no resize request has been handled yet
NoResize == [n |-> 0, changed |-> FALSE, calls |-> <<>>,
             pty_failed |-> FALSE, screen_failed |-> FALSE,
             viewport |-> [vw |-> 0, vh |-> 0, cw |-> 0, ch |-> 0]]

\* no key event has been handled yet
NoKey == [n |-> 0, event |-> [key |-> "Menu", shift |-> FALSE, alt |-> FALSE,
                              ctrl |-> FALSE, text |-> <<>>],
          sel |-> FALSE, quake |-> FALSE, clip |-> <<>>, mode |-> FALSE,
          writes |-> <<>>, sent |-> <<>>]

\* the second session after its own ShellWidget.__init__
PeerStart == [application_mode |-> FALSE, in_alternate_screen |-> FALSE,
              alt_history_marker |-> None,
              output_buffer |-> <<>>, cols |-> default_cols,
              rows |-> default_rows, running |-> TRUE]

\* ------------------------------------------------------------------- Init
\* TerminalEmulator.running after start() with the flag set before the spawn
RunningAfterStart_SetFirst(started) == TRUE

\* TerminalEmulator.running after start(): False from __init__ (line 79), set
\* to True only after the spawn succeeded (line 129)
RunningAfterStart(started) == started

\* no call of TerminalEmulator.read or write from outside the session yet
NoCalls == [read_called |-> FALSE, read_returned |-> <<>>,
            write_called |-> FALSE, sent |-> <<>>]

\* the state after ShellWidget.__init__ (lines 52-62, 105-107),
\* TerminalEmulator.__init__ and start, and TerminalThread.__init__; started
\* is the result of the spawn in start().  When the spawn fails, __init__
\* raises at line 59: no TerminalThread is made and no child process exists.
\* alt is in_alternate_screen, for a session met while a full-screen program
\* runs, and u is the record of what the session has shown so far.
BuiltOn(timed, mode, started, alt, u, top, bottom) ==
    /\ platform \in {"win32", "unix"}
    /\ clock = 0
    /\ running = started
    /\ output_buffer = <<>>
    /\ terminal_running = RunningAfterStart(started)
    /\ isalive = started
    /\ history_top = top
    /\ history_bottom = bottom
    /\ pc = (IF started THEN "start" ELSE "unstarted")
    /\ output = <<>>
    /\ buf_tmp = <<>>
    /\ current_time = 0
    /\ adjusted_threshold = 0
    /\ last_emit_time = 0
    /\ events = <<>>
    /\ gui_pc = (IF started THEN "idle" ELSE "failed")
    /\ application_mode = mode
    /\ in_alternate_screen = alt
    /\ alt_history_marker = (IF alt THEN <<0, 0>> ELSE None)
    /\ n_read = 0
    /\ n_fed = 0
    /\ received = <<>>
    /\ exit_calls = 0
    /\ obs = [timed |-> timed, render_in_feed |-> FALSE, render_ahead |-> FALSE,
              entries_fed |-> 0, entry_lens |-> None,
              exit_fed |-> FALSE, late_rows |-> FALSE,
              exits |-> 0, exit_lens |-> None,
              first_unflushed |-> -1, last_read |-> -1, gaps_ok |-> TRUE,
              read_failed |-> FALSE, read_after_fail |-> FALSE,
              write_failed |-> FALSE,
              exit_cause |-> "none", final_flush |-> FALSE,
              pty_log |-> <<>>, last_mode_marker |-> FALSE,
              input_start_position |-> 0, entry_top |-> <<>>]
    /\ cols = default_cols
    /\ rows = default_rows
    /\ pty_winsize = <<default_rows, default_cols>>
    /\ screen_size = <<default_rows, default_cols>>
    /\ ui = u
    /\ peer = PeerStart

\* a session right after construction: the ledger is empty
\* (TerminalEmulator.__init__, lines 88-90)
Built(timed, mode, started, alt, u) ==
    BuiltOn(timed, mode, started, alt, u, <<>>, <<>>)

\* what the session has shown and has been asked so far: nothing
UiStart(started) ==
    [spawn_reports |-> (IF started THEN 0 ELSE 1), resize |-> NoResize,
     resize_failed |-> FALSE, key |-> NoKey, calls |-> NoCalls]

Constructed(timed, mode, started) ==
    Built(timed, mode, started, FALSE, UiStart(started))

StartWith(timed, mode) == Constructed(timed, mode, TRUE)

\* the spawn failed: start() returned False and __init__ raised
StartFailed == Constructed(FALSE, FALSE, FALSE)

Start(timed) == StartWith(timed, FALSE)

Init == Start(FALSE)

\* ------------------------------------------------ the terminal state engine
\* stream.feed(raw_data) on a pyte HistoryScreen: what one piece does to the
\* history ledger.  The alternate-screen markers change nothing in pyte.
FeedTop(h, tok) == IF tok.k = "T" THEN DequeAppend(h, tok.id) ELSE h

FeedBottom(h, tok) == IF tok.k = "B" THEN DequeAppend(h, tok.id) ELSE h

\* ------------------------------------------------- TerminalThread.run (pump)
\* line 22: last_emit_time = time.time()
run_start ==
    /\ pc = "start"
    /\ last_emit_time' = 0
    /\ clock' = 0
    /\ pc' = "while"
    /\ UNCHANGED <<config_vars, geom_vars, ui, peer, running, output_buffer, terminal_running,
                   isalive, history_top, events, gui_pc, widget_vars, output,
                   buf_tmp, current_time, adjusted_threshold, n_read, n_fed,
                   exit_calls, obs>>

\* run_while with line 24 as `while self.running`: the session's own flag is
\* not looked at
run_while_OwnFlagOnly ==
    /\ pc = "while"
    /\ IF running
          THEN /\ pc' = "isalive"
               /\ obs' = obs
          ELSE /\ pc' = "final_check"
               /\ obs' = [obs EXCEPT !.exit_cause = "stopped"]
    /\ UNCHANGED <<config_vars, geom_vars, ui, peer, clock, running, output_buffer, terminal_running,
                   isalive, history_top, events, gui_pc, widget_vars,
                   pump_locals, n_read, n_fed, exit_calls>>

\* line 24: while self.running and self.terminal.running
run_while ==
    /\ pc = "while"
    /\ IF running /\ terminal_running
          THEN /\ pc' = "isalive"
               /\ obs' = obs
          ELSE /\ pc' = "final_check"
               /\ obs' = [obs EXCEPT !.exit_cause =
                                 IF running THEN "error" ELSE "stopped"]
    /\ UNCHANGED <<config_vars, geom_vars, ui, peer, clock, running, output_buffer, terminal_running,
                   isalive, history_top, events, gui_pc, widget_vars,
                   pump_locals, n_read, n_fed, exit_calls>>

\* lines 27-29: if not self.terminal.pty_process.isalive(): break
run_isalive ==
    /\ pc = "isalive"
    /\ IF isalive
          THEN /\ pc' = "read"
               /\ obs' = obs
          ELSE /\ pc' = "final_check"
               /\ obs' = [obs EXCEPT !.exit_cause = "dead"]
    /\ UNCHANGED <<config_vars, geom_vars, ui, peer, clock, running, output_buffer, terminal_running,
                   isalive, history_top, events, gui_pc, widget_vars,
                   pump_locals, n_read, n_fed, exit_calls>>

\* lines 27, 51: isalive() raises; control goes to the except clause
run_isalive_raises ==
    /\ pc = "isalive"
    /\ pc' = "exc_check"
    /\ obs' = [obs EXCEPT !.exit_cause = "exception"]
    /\ UNCHANGED <<config_vars, geom_vars, ui, peer, clock, running, output_buffer, terminal_running,
                   isalive, history_top, events, gui_pc, widget_vars,
                   pump_locals, n_read, n_fed, exit_calls>>

\* TerminalEmulator.read, lines 188-189 and 193-194 / 201-202: nothing to do
read_not_running ==
    /\ pc = "read"
    /\ ~terminal_running \/ ~isalive
    /\ pc' = "sleep"
    /\ UNCHANGED <<config_vars, geom_vars, ui, peer, clock, running, output_buffer, terminal_running,
                   isalive, history_top, events, gui_pc, widget_vars,
                   pump_locals, n_read, n_fed, exit_calls, obs>>

\* what every call of pty_process.read records
ReadAttempt(o) ==
    [o EXCEPT !.read_after_fail = o.read_after_fail \/ o.read_failed]

\* what the arrival of a piece at time t records: when the oldest piece still
\* in the buffer arrived, and whether the pieces since came less than
\* buffer_time_threshold apart
Arrival(o, t) ==
    IF o.timed
      THEN [o EXCEPT !.first_unflushed = IF o.first_unflushed = -1 THEN t
                                          ELSE o.first_unflushed,
                     !.gaps_ok = o.first_unflushed = -1 \/
                                 (o.gaps_ok /\ t - o.last_read < buffer_time_threshold),
                     !.last_read = t]
      ELSE o

Flushed(o) == [o EXCEPT !.first_unflushed = -1, !.last_read = -1, !.gaps_ok = TRUE]

\* TerminalEmulator.read, lines 195-198 / 204-209: the PTY has data
read_data(K) ==
    /\ pc = "read"
    /\ terminal_running /\ isalive
    /\ n_read < MaxReads
    /\ \E k \in K : output' = <<[id |-> n_read + 1, k |-> k]>>
    /\ n_read' = n_read + 1
    /\ pc' = "feed"
    /\ obs' = ReadAttempt(obs)
    /\ UNCHANGED <<config_vars, geom_vars, ui, peer, clock, running, output_buffer, terminal_running,
                   isalive, history_top, events, gui_pc, widget_vars, buf_tmp,
                   current_time, adjusted_threshold, last_emit_time, n_fed,
                   exit_calls>>

\* TerminalEmulator.read: pty_process.read returns nothing
read_empty ==
    /\ pc = "read"
    /\ terminal_running /\ isalive
    /\ pc' = "sleep"
    /\ obs' = ReadAttempt(obs)
    /\ UNCHANGED <<config_vars, geom_vars, ui, peer, clock, running, output_buffer, terminal_running,
                   isalive, history_top, events, gui_pc, widget_vars,
                   pump_locals, n_read, n_fed, exit_calls>>

\* TerminalEmulator.read: pty_process.read raises.  On win32 the outer handler
\* (lines 212-215) runs; elsewhere the bare except of lines 210-211 returns ''.
read_raises ==
    /\ pc = "read"
    /\ terminal_running /\ isalive
    /\ terminal_running' = (platform # "win32")
    /\ pc' = "sleep"
    /\ obs' = [obs EXCEPT !.read_after_fail = obs.read_after_fail \/ obs.read_failed,
                          !.read_failed = TRUE]
    /\ UNCHANGED <<config_vars, geom_vars, ui, peer, clock, running, output_buffer, isalive,
                   history_top, events, gui_pc, widget_vars, pump_locals,
                   n_read, n_fed, exit_calls>>

\* what feeding a piece records: the ledger lengths when the first entry
\* marker is fed, and whether a row was appended after an exit marker was fed
Fed(o, k) ==
    [o EXCEPT !.entries_fed = IF k = "E" THEN Min(o.entries_fed + 1, 2)
                              ELSE o.entries_fed,
              !.entry_lens = IF k = "E" /\ o.entries_fed = 0
                               THEN <<Len(history_top), Len(history_bottom)>>
                               ELSE o.entry_lens,
              !.exit_fed = o.exit_fed \/ k = "X",
              !.late_rows = o.late_rows \/ (o.exit_fed /\ k \in {"T", "B"})]

\* TerminalEmulator.read, lines 196-198 / 207-209: self.stream.feed(raw_data)
read_feed ==
    /\ pc = "feed"
    /\ history_top' = FeedTop(history_top, output[1])
    /\ history_bottom' = FeedBottom(history_bottom, output[1])
    /\ n_fed' = n_fed + 1
    /\ pc' = "append_load"
    /\ obs' = Fed(obs, output[1].k)
    /\ UNCHANGED <<config_vars, geom_vars, ui, peer, clock, running, output_buffer, terminal_running,
                   isalive, events, gui_pc, application_mode, in_alternate_screen,
                   alt_history_marker, received, pump_locals, n_read, exit_calls>>

\* line 33, first half of self.output_buffer += output: load the field
run_append_load ==
    /\ pc = "append_load"
    /\ buf_tmp' = output_buffer
    /\ pc' = "append_store"
    /\ UNCHANGED <<config_vars, geom_vars, ui, peer, clock, running, output_buffer, terminal_running,
                   isalive, history_top, events, gui_pc, widget_vars, output,
                   current_time, adjusted_threshold, last_emit_time, n_read,
                   n_fed, exit_calls, obs>>

\* lines 33-34: store the concatenation; current_time = time.time()
run_append_store ==
    /\ pc = "append_store"
    /\ output_buffer' = buf_tmp \o output
    /\ \E t \in clock..MaxTime : current_time' = t /\ clock' = t
    /\ output' = <<>>
    /\ buf_tmp' = <<>>
    /\ pc' = "thresh"
    /\ obs' = Arrival(obs, clock')
    /\ UNCHANGED <<config_vars, geom_vars, ui, peer, running, terminal_running, isalive,
                   history_top, events, gui_pc, widget_vars, adjusted_threshold,
                   last_emit_time, n_read, n_fed, exit_calls>>

\* lines 38-40: adjusted_threshold
run_thresh ==
    /\ pc = "thresh"
    /\ adjusted_threshold' =
           IF 2 * StrLen(output_buffer) > buffer_size_threshold
             THEN Min(buffer_time_threshold, burst_time_threshold)
             ELSE buffer_time_threshold
    /\ pc' = "cond"
    /\ UNCHANGED <<config_vars, geom_vars, ui, peer, clock, running, output_buffer, terminal_running,
                   isalive, history_top, events, gui_pc, widget_vars, output,
                   buf_tmp, current_time, last_emit_time, n_read, n_fed,
                   exit_calls, obs>>

\* FlushDue with > for >= in both comparisons
FlushDue_Strict(len, cur, last, thr) ==
    len > buffer_size_threshold \/ cur - last > thr

\* lines 43-44: the flush condition
FlushDue(len, cur, last, thr) ==
    len >= buffer_size_threshold \/ cur - last >= thr

run_cond ==
    /\ pc = "cond"
    /\ IF FlushDue(StrLen(output_buffer), current_time, last_emit_time,
                   adjusted_threshold)
          THEN /\ pc' = "emit"
               /\ UNCHANGED <<current_time, adjusted_threshold>>
          ELSE /\ pc' = "while"
               /\ current_time' = 0
               /\ adjusted_threshold' = 0
    /\ UNCHANGED <<config_vars, geom_vars, ui, peer, clock, running, output_buffer, terminal_running,
                   isalive, history_top, events, gui_pc, widget_vars, output,
                   buf_tmp, last_emit_time, n_read, n_fed, exit_calls, obs>>

\* line 45: self.output_received.emit(self.output_buffer), posted to the GUI
\* thread's event queue
run_emit ==
    /\ pc = "emit"
    /\ events' = Append(events, output_buffer)
    /\ pc' = "clear"
    /\ UNCHANGED <<config_vars, geom_vars, ui, peer, clock, running, output_buffer, terminal_running,
                   isalive, history_top, gui_pc, widget_vars, pump_locals,
                   n_read, n_fed, exit_calls, obs>>

\* lines 46-47: self.output_buffer = ""; last_emit_time = current_time
run_clear ==
    /\ pc = "clear"
    /\ output_buffer' = <<>>
    /\ last_emit_time' = 0
    /\ clock' = clock - current_time
    /\ current_time' = 0
    /\ adjusted_threshold' = 0
    /\ pc' = "while"
    /\ obs' = Flushed(obs)
    /\ UNCHANGED <<config_vars, geom_vars, ui, peer, running, terminal_running, isalive,
                   history_top, events, gui_pc, widget_vars, output, buf_tmp,
                   n_read, n_fed, exit_calls>>

\* line 50: time.sleep(0.001)
run_sleep ==
    /\ pc = "sleep"
    /\ clock' = Min(clock + 1, MaxTime)
    /\ pc' = "while"
    /\ UNCHANGED <<config_vars, geom_vars, ui, peer, running, output_buffer, terminal_running,
                   isalive, history_top, events, gui_pc, widget_vars,
                   pump_locals, n_read, n_fed, exit_calls, obs>>

\* lines 51-53: except Exception: if self.output_buffer
run_except_check ==
    /\ pc = "exc_check"
    /\ pc' = IF output_buffer # <<>> THEN "exc_emit" ELSE "final_check"
    /\ UNCHANGED <<config_vars, geom_vars, ui, peer, clock, running, output_buffer, terminal_running,
                   isalive, history_top, events, gui_pc, widget_vars,
                   pump_locals, n_read, n_fed, exit_calls, obs>>

\* line 54: self.output_received.emit(self.output_buffer)
run_except_emit ==
    /\ pc = "exc_emit"
    /\ events' = Append(events, output_buffer)
    /\ pc' = "exc_clear"
    /\ obs' = [obs EXCEPT !.final_flush = TRUE]
    /\ UNCHANGED <<config_vars, geom_vars, ui, peer, clock, running, output_buffer, terminal_running,
                   isalive, history_top, gui_pc, widget_vars, pump_locals,
                   n_read, n_fed, exit_calls>>

\* lines 55-56: self.output_buffer = ""; break
run_except_clear ==
    /\ pc = "exc_clear"
    /\ output_buffer' = <<>>
    /\ pc' = "final_check"
    /\ obs' = Flushed(obs)
    /\ UNCHANGED <<config_vars, geom_vars, ui, peer, clock, running, terminal_running, isalive,
                   history_top, events, gui_pc, widget_vars, pump_locals,
                   n_read, n_fed, exit_calls>>

\* run_final_check without lines 59-61: the loop's exit goes straight to the
\* exit callback
run_final_check_NoFlush ==
    /\ pc = "final_check"
    /\ pc' = "exit_check"
    /\ UNCHANGED <<config_vars, geom_vars, ui, peer, clock, running, output_buffer, terminal_running,
                   isalive, history_top, events, gui_pc, widget_vars,
                   pump_locals, n_read, n_fed, exit_calls, obs>>

\* line 59: if self.output_buffer
run_final_check ==
    /\ pc = "final_check"
    /\ pc' = IF output_buffer # <<>> THEN "final_emit" ELSE "exit_check"
    /\ UNCHANGED <<config_vars, geom_vars, ui, peer, clock, running, output_buffer, terminal_running,
                   isalive, history_top, events, gui_pc, widget_vars,
                   pump_locals, n_read, n_fed, exit_calls, obs>>

\* line 60: self.output_received.emit(self.output_buffer)
run_final_emit ==
    /\ pc = "final_emit"
    /\ events' = Append(events, output_buffer)
    /\ pc' = "final_clear"
    /\ obs' = [obs EXCEPT !.final_flush = TRUE]
    /\ UNCHANGED <<config_vars, geom_vars, ui, peer, clock, running, output_buffer, terminal_running,
                   isalive, history_top, gui_pc, widget_vars, pump_locals,
                   n_read, n_fed, exit_calls>>

\* line 61: self.output_buffer = ""
run_final_clear ==
    /\ pc = "final_clear"
    /\ output_buffer' = <<>>
    /\ pc' = "exit_check"
    /\ obs' = Flushed(obs)
    /\ UNCHANGED <<config_vars, geom_vars, ui, peer, clock, running, terminal_running, isalive,
                   history_top, events, gui_pc, widget_vars, pump_locals,
                   n_read, n_fed, exit_calls>>

\* lines 64-67: the exit callback, then the thread ends
run_exit_callback ==
    /\ pc = "exit_check"
    /\ exit_calls' = IF ~isalive /\ exit_callback THEN exit_calls + 1 ELSE exit_calls
    /\ pc' = "done"
    /\ UNCHANGED <<config_vars, geom_vars, ui, peer, clock, running, output_buffer, terminal_running,
                   isalive, history_top, events, gui_pc, widget_vars,
                   pump_locals, n_read, n_fed, obs>>

\* ------------------------------------------------ ShellWidget (GUI thread)
\* a flush is in flight in the pump / in stop()
PumpFlushing == pc \in {"emit", "clear", "exc_emit", "exc_clear",
                        "final_emit", "final_clear"}

StopFlushing == gui_pc \in {"stop_emit", "stop_clear"}

\* ShellWidget.append_output(text), lines 369-373: an entry marker in text
MarkerAfterEntry(text) ==
    IF Contains(text, "E") THEN <<Len(history_top), Len(history_bottom)>>
    ELSE alt_history_marker

AltAfterEntry(text) ==
    IF Contains(text, "E") THEN TRUE ELSE in_alternate_screen

\* lines 374-381: an exit marker in text trims the ledger to the snapshot
TopAfterExit(text) ==
    IF Contains(text, "X") /\ MarkerAfterEntry(text) # None
      THEN PopWhileLonger(history_top, MarkerAfterEntry(text)[1])
      ELSE history_top

BottomAfterExit(text) ==
    IF Contains(text, "X") /\ MarkerAfterEntry(text) # None
      THEN PopWhileLonger(history_bottom, MarkerAfterEntry(text)[2])
      ELSE history_bottom

\* line 382: self._alt_history_marker = None
MarkerAfterExit(text) ==
    IF Contains(text, "X") THEN None ELSE MarkerAfterEntry(text)

\* AltAfterExit without line 383: the exit branch clears only the snapshot
AltAfterExit_FlagKept(text) == AltAfterEntry(text)

\* line 383: self.in_alternate_screen = False
AltAfterExit(text) ==
    IF Contains(text, "X") THEN FALSE ELSE AltAfterEntry(text)

\* lines 364-367
ModeAfter(text, mode) ==
    IF Contains(text, "Kl") THEN FALSE
    ELSE IF Contains(text, "Kh") THEN TRUE
    ELSE mode

RECURSIVE LastModeMarker(_, _)
\* the setting of the last keypad-mode marker in the stream up to the end of
\* text: TRUE for a set marker, FALSE for a reset marker, before otherwise
LastModeMarker(text, before) ==
    IF text = <<>> THEN before
    ELSE LastModeMarker(Tail(text),
                        IF Head(text).k = "Kh" THEN TRUE
                        ELSE IF Head(text).k = "Kl" THEN FALSE
                        ELSE before)

\* _render_screen, lines 326-342: the lines a render pass shows on a screen
\* of size <<lines, columns>>: the ledger, when it is shown, around the grid
LineCount(top, bottom, alt, size) ==
    (IF alt THEN 0 ELSE Len(top) + Len(bottom)) + size[1]

\* lines 354 and 393-394: len(doc_text), every line rendered columns wide
\* (_render_line, line 273) and the lines joined by newlines
DocLength(n_lines, size) ==
    IF n_lines = 0 THEN 0 ELSE n_lines * size[2] + (n_lines - 1)

\* what a render pass (line 389, _render_screen) and an exit transition record
Observe(text, o) ==
    [o EXCEPT
       !.last_mode_marker = LastModeMarker(text, o.last_mode_marker),
       !.render_in_feed = o.render_in_feed \/ pc = "feed",
       !.render_ahead = o.render_ahead \/
                        ~((1..n_fed) \subseteq {(received \o IdSeq(text))[i] :
                                                 i \in 1..(Len(received) + Len(text))}),
       !.exits = IF Contains(text, "X") THEN Min(o.exits + 1, 2) ELSE o.exits,
       !.exit_lens = IF /\ Contains(text, "X")
                        /\ o.exits = 0
                        /\ in_alternate_screen
                        /\ ~Contains(text, "E")
                        /\ o.entries_fed = 1
                        /\ ~o.late_rows
                       THEN <<Len(TopAfterExit(text)), Len(BottomAfterExit(text))>>
                       ELSE o.exit_lens,
       !.entry_top = IF Contains(text, "X") THEN <<>>
                     ELSE IF Contains(text, "E") /\ o.entry_top = <<>>
                       THEN <<history_top>>
                     ELSE o.entry_top]

\* PeerAfter with application_mode held by the class instead of the instance
PeerAfter_ClassAttr(text) ==
    [peer EXCEPT !.application_mode = ModeAfter(text, application_mode)]

\* what append_output does to the fields of the other session: every field it
\* assigns is an attribute of self, set in __init__ (lines 52, 61-62)
PeerAfter(text) == peer

\* ShellWidget.append_output(text), lines 356-408, rendering a screen of the
\* given size; line 394 publishes input_start_position
append_output_sized(text, size) ==
    /\ application_mode' = ModeAfter(text, application_mode)
    /\ alt_history_marker' = MarkerAfterExit(text)
    /\ in_alternate_screen' = AltAfterExit(text)
    /\ history_top' = TopAfterExit(text)
    /\ history_bottom' = BottomAfterExit(text)
    /\ received' = received \o IdSeq(text)
    /\ obs' = [Observe(text, obs) EXCEPT
                 !.input_start_position =
                     DocLength(LineCount(TopAfterExit(text),
                                         BottomAfterExit(text),
                                         AltAfterExit(text), size), size)]
    /\ peer' = PeerAfter(text)

\* append_output on the screen as it is
append_output(text) == append_output_sized(text, screen_size)

\* the GUI event loop delivers one queued output_received emission
deliver ==
    /\ gui_pc \in {"idle", "closed"}
    /\ events # <<>>
    /\ append_output(Head(events))
    /\ events' = Tail(events)
    /\ UNCHANGED <<config_vars, geom_vars, ui, clock, running, output_buffer, terminal_running,
                   isalive, pc, pump_locals, gui_pc, n_read, n_fed, exit_calls>>

\* TerminalEmulator.write(data), lines 217-233, called by handle_key_press
write ==
    /\ gui_pc = "idle"
    /\ UNCHANGED vars

\* TerminalEmulator.write(data), lines 234-236: pty_process.write raises
write_raises ==
    /\ gui_pc = "idle"
    /\ terminal_running /\ isalive
    /\ terminal_running' = FALSE
    /\ obs' = [obs EXCEPT !.write_failed = TRUE]
    /\ UNCHANGED <<config_vars, geom_vars, ui, peer, clock, running, output_buffer, isalive,
                   history_top, events, gui_pc, widget_vars, pc, pump_locals,
                   n_read, n_fed, exit_calls>>

\* closeEvent, line 686 -> TerminalThread.stop, line 70: self.running = False
stop_running ==
    /\ gui_pc = "idle"
    /\ running' = FALSE
    /\ gui_pc' = "stop_check"
    /\ UNCHANGED <<config_vars, geom_vars, ui, peer, clock, output_buffer, terminal_running, isalive,
                   history_top, events, widget_vars, pc, pump_locals, n_read,
                   n_fed, exit_calls, obs>>

\* TerminalThread.stop, line 72: if self.output_buffer
stop_check ==
    /\ gui_pc = "stop_check"
    /\ gui_pc' = IF output_buffer # <<>> THEN "stop_emit" ELSE "close"
    /\ UNCHANGED <<config_vars, geom_vars, ui, peer, clock, running, output_buffer, terminal_running,
                   isalive, history_top, events, widget_vars, pc, pump_locals,
                   n_read, n_fed, exit_calls, obs>>

\* TerminalThread.stop, line 73: emit on the GUI thread runs append_output now
stop_emit ==
    /\ gui_pc = "stop_emit"
    /\ append_output(output_buffer)
    /\ gui_pc' = "stop_clear"
    /\ UNCHANGED <<config_vars, geom_vars, ui, clock, running, output_buffer, terminal_running,
                   isalive, events, pc, pump_locals, n_read, n_fed, exit_calls>>

\* TerminalThread.stop, line 74: self.output_buffer = ""
stop_clear ==
    /\ gui_pc = "stop_clear"
    /\ output_buffer' = <<>>
    /\ gui_pc' = "close"
    /\ obs' = Flushed(obs)
    /\ UNCHANGED <<config_vars, geom_vars, ui, peer, clock, running, terminal_running, isalive,
                   history_top, events, widget_vars, pc, pump_locals, n_read,
                   n_fed, exit_calls>>

\* TerminalEmulator.close, lines 263-278: running = False, then the exit command
close ==
    /\ gui_pc = "close"
    /\ terminal_running' = FALSE
    /\ IF isalive
         THEN /\ gui_pc' = "grace"
              /\ obs' = [obs EXCEPT !.pty_log = Append(obs.pty_log, "exit")]
         ELSE /\ gui_pc' = "closed"
              /\ obs' = obs
    /\ UNCHANGED <<config_vars, geom_vars, ui, peer, clock, running, output_buffer, isalive,
                   history_top, events, widget_vars, pc, pump_locals, n_read,
                   n_fed, exit_calls>>

\* TerminalEmulator.close, lines 267/278, 271-272/282-283: the write raises
close_write_raises ==
    /\ gui_pc = "close"
    /\ isalive
    /\ terminal_running' = FALSE
    /\ gui_pc' = "closed"
    /\ UNCHANGED <<config_vars, geom_vars, ui, peer, clock, running, output_buffer, isalive,
                   history_top, events, widget_vars, pc, pump_locals, n_read,
                   n_fed, exit_calls, obs>>

\* TerminalEmulator.close, lines 268-270 / 279-281: the grace period, then
\* terminate(force=True) if the process is still alive
close_terminate ==
    /\ gui_pc = "grace"
    /\ clock' = Min(clock + close_grace_ms, MaxTime)
    /\ isalive' = FALSE
    /\ obs' = IF isalive
                THEN [obs EXCEPT !.pty_log = Append(obs.pty_log, "terminate")]
                ELSE obs
    /\ gui_pc' = "closed"
    /\ UNCHANGED <<config_vars, geom_vars, ui, peer, running, output_buffer, terminal_running,
                   history_top, events, widget_vars, pc, pump_locals, n_read,
                   n_fed, exit_calls>>

\* ------------------------------------------------- geometry (GUI thread)
Max(a, b) == IF a > b THEN a ELSE b

\* NewCols without the margin column of line 147
NewCols_NoMargin(vw, cw) == Max(2, vw \div Max(1, cw))

\* update_terminal_size, lines 143-148
NewCols(vw, cw) == Max(2, (vw \div Max(1, cw)) - 1)

NewRows(vh, ch) == Max(2, vh \div Max(1, ch))

\* viewport and font metrics a resize event can bring
Viewports == [vw : {0, 12, 652}, vh : {0, 8, 390}, cw : {0, 8}, ch : {16}]

\* one viewport: the pane is made smaller
SmallViewport == {[vw |-> 24, vh |-> 48, cw |-> 8, ch |-> 16]}

\* SizeChanged without the comparison of line 150
SizeChanged_Always(nc, nr) == TRUE

\* line 150: if new_cols != self.terminal.cols or new_rows != self.terminal.rows
SizeChanged(nc, nr) == nc # cols \/ nr # rows

\* TerminalEmulator.resize, lines 242-255: pty_process.setwinsize(rows, cols)
\* in its own try block
PtyAfterResize(nc, nr, raises) == IF raises THEN pty_winsize ELSE <<nr, nc>>

\* ScreenAfterResize with the arguments of screen.resize exchanged
ScreenAfterResize_Swapped(nc, nr, pty_raises, raises) ==
    IF raises THEN screen_size ELSE <<nc, nr>>

\* ScreenAfterResize with one try block around both calls
ScreenAfterResize_Abort(nc, nr, pty_raises, raises) ==
    IF pty_raises \/ raises THEN screen_size ELSE <<nr, nc>>

\* TerminalEmulator.resize, lines 257-260: self.screen.resize(rows, cols) in
\* its own try block
ScreenAfterResize(nc, nr, pty_raises, raises) ==
    IF raises THEN screen_size ELSE <<nr, nc>>

\* the collaborator calls of TerminalEmulator.resize, in order
ResizeCalls == <<"setwinsize", "screen.resize">>

\* ShellWidget.update_terminal_size, lines 135-152, with TerminalEmulator.resize
\* and the render pass of append_output("")
update_terminal_size(V) ==
    /\ gui_pc = "idle"
    /\ \E m \in V, pty_raises \in BOOLEAN, screen_raises \in BOOLEAN :
         LET nc == NewCols(m.vw, m.cw)
             nr == NewRows(m.vh, m.ch)
             n == Min(ui.resize.n + 1, 2)
         IN  IF m.vw <= 0 \/ m.vh <= 0
               THEN UNCHANGED <<widget_vars, history_top, obs, geom_vars, ui, peer>>
             ELSE IF SizeChanged(nc, nr)
               THEN /\ cols' = nc
                    /\ rows' = nr
                    /\ pty_winsize' = PtyAfterResize(nc, nr, pty_raises)
                    /\ screen_size' =
                           ScreenAfterResize(nc, nr, pty_raises, screen_raises)
                    /\ append_output_sized(<<>>,
                           ScreenAfterResize(nc, nr, pty_raises, screen_raises))
                    /\ ui' = [ui EXCEPT
                           !.resize = [n |-> n,
                                       changed |-> <<nc, nr>> # <<cols, rows>>,
                                       calls |-> Append(ResizeCalls, "render"),
                                       pty_failed |-> pty_raises,
                                       screen_failed |-> screen_raises,
                                       viewport |-> m],
                           !.resize_failed = @ \/ pty_raises \/ screen_raises]
               ELSE /\ ui' = [ui EXCEPT
                           !.resize = [n |-> n,
                                       changed |-> <<nc, nr>> # <<cols, rows>>,
                                       calls |-> <<>>,
                                       pty_failed |-> FALSE,
                                       screen_failed |-> FALSE,
                                       viewport |-> m]]
                    /\ UNCHANGED <<widget_vars, history_top, obs, geom_vars, peer>>
    /\ UNCHANGED <<config_vars, clock, running, output_buffer, terminal_running,
                   isalive, events, pc, pump_locals, gui_pc, n_read, n_fed,
                   exit_calls>>

\* ------------------------------------------- key events (GUI thread)
\* bytes are numbers; a string is a sequence of bytes
ESC == 27
CR == 13
LF == 10
CSI == <<ESC, 91>>                \* ESC [
SS3 == <<ESC, 79>>                \* ESC O

Letters == <<"A", "B", "C", "D", "E", "F", "G", "H", "I", "J", "K", "L", "M",
             "N", "O", "P", "Q", "R", "S", "T", "U", "V", "W", "X", "Y", "Z">>

LetterKeys == {Letters[i] : i \in 1..Len(Letters)}

\* key - Qt.Key.Key_A for a letter key
LetterOffset(key) == (CHOOSE i \in 1..Len(Letters) : Letters[i] = key) - 1

FunctionKeys == {"F1", "F2", "F3", "F4", "F5", "F6", "F7", "F8", "F9", "F10",
                 "F11", "F12"}

\* the keys a key event can carry; "Menu" stands for a key no rule names
KeyNames ==
    {"Up", "Down", "Right", "Left", "Home", "End", "PageUp", "PageDown",
     "Delete", "Insert", "Return", "Enter", "Backspace", "Tab", "Backtab",
     "Escape", "Menu"} \cup FunctionKeys \cup LetterKeys

\* event.text(): nothing, "a", or ESC "a"
Texts == {<<>>, <<97>>, <<ESC, 97>>}

KeyEvents == [key : KeyNames, shift : BOOLEAN, alt : BOOLEAN, ctrl : BOOLEAN,
              text : Texts]

\* one key event: the Up arrow with no modifier
UpKey == {[key |-> "Up", shift |-> FALSE, alt |-> FALSE, ctrl |-> FALSE,
           text |-> <<>>]}

RECURSIVE SeqsUpTo(_, _)
\* the strings over the alphabet A of length at most n
SeqsUpTo(n, A) ==
    IF n = 0 THEN {<<>>}
    ELSE LET shorter == SeqsUpTo(n - 1, A)
         IN  shorter \cup {Append(t, c) : t \in shorter, c \in A}

\* QApplication.clipboard().text()
PasteTexts == SeqsUpTo(MaxPaste, {97, CR, LF}) \cup {<<97, CR, LF, 98, CR, 99>>}

\* event_sequence.matches(QKeySequence(shortcut)) == ExactMatch
Matches(ev, key, shift, alt, ctrl) ==
    ev.key = key /\ ev.shift = shift /\ ev.alt = alt /\ ev.ctrl = ctrl

\* the default shortcuts of AppSettings (app_settings.py lines 31-35)
QuakeShortcut(ev) ==
    Matches(ev, "Up", FALSE, FALSE, TRUE) \/ Matches(ev, "Down", FALSE, FALSE, TRUE)

CopyShortcut(ev) == Matches(ev, "C", TRUE, FALSE, TRUE)

PasteShortcut(ev) == Matches(ev, "V", TRUE, FALSE, TRUE)

NewWindowShortcut(ev) == Matches(ev, "N", TRUE, FALSE, TRUE)

\* lines 498-499: Ctrl+C, Ctrl+Insert or Ctrl+Shift+C
DefaultCopy(ev) ==
    \/ Matches(ev, "C", FALSE, FALSE, TRUE)
    \/ Matches(ev, "Insert", FALSE, FALSE, TRUE)
    \/ Matches(ev, "C", TRUE, FALSE, TRUE)

\* lines 502-503: Ctrl+V or Shift+Insert
DefaultPaste(ev) ==
    Matches(ev, "V", FALSE, FALSE, TRUE) \/ Matches(ev, "Insert", TRUE, FALSE, FALSE)

RECURSIVE ReplaceCRLF(_)
\* text.replace("\r\n", "\n")
ReplaceCRLF(t) ==
    IF t = <<>> THEN <<>>
    ELSE IF Len(t) >= 2 /\ t[1] = CR /\ t[2] = LF
           THEN <<LF>> \o ReplaceCRLF(SubSeq(t, 3, Len(t)))
           ELSE <<t[1]>> \o ReplaceCRLF(Tail(t))

\* text.replace("\r", "\n")
ReplaceCR(t) == [i \in 1..Len(t) |-> IF t[i] = CR THEN LF ELSE t[i]]

\* Normalize without the second replace
Normalize_CRLFOnly(t) == ReplaceCRLF(t)

\* lines 485, 507
Normalize(t) == ReplaceCR(ReplaceCRLF(t))

\* lines 484-486, 506-508: the writes of a paste
PasteWrites(clip) == IF clip # <<>> THEN <<Normalize(clip)>> ELSE <<>>

\* ModifierParam with the weights of Alt and Ctrl exchanged
ModifierParam_Swapped(ev) ==
    1 + (IF ev.shift THEN 1 ELSE 0) + (IF ev.alt THEN 4 ELSE 0)
      + (IF ev.ctrl THEN 2 ELSE 0)

\* modifier_param, lines 512-520 (1 stands for None)
ModifierParam(ev) ==
    1 + (IF ev.shift THEN 1 ELSE 0) + (IF ev.alt THEN 2 ELSE 0)
      + (IF ev.ctrl THEN 4 ELSE 0)

\* csi_with_mod, lines 522-526
CsiWithMod(ev, letter) ==
    IF ModifierParam(ev) # 1
      THEN CSI \o <<49, 59, 48 + ModifierParam(ev), letter>>
      ELSE CSI \o <<letter>>

\* lines 568-592: f"\x1b[{n};{param}~" or f"\x1b[{n}~"
TildeWithMod(ev, digit) ==
    IF ModifierParam(ev) # 1
      THEN CSI \o <<48 + digit, 59, 48 + ModifierParam(ev), 126>>
      ELSE CSI \o <<48 + digit, 126>>

\* arrow_map_normal and the letters of Home and End, lines 535-564
CursorLetter(key) ==
    CASE key = "Up" -> 65 [] key = "Down" -> 66 [] key = "Right" -> 67
      [] key = "Left" -> 68 [] key = "Home" -> 72 [] key = "End" -> 70

CursorKeys == {"Up", "Down", "Right", "Left", "Home", "End"}

\* lines 568-592: the number of PageUp, PageDown, Delete and Insert
TildeDigit(key) ==
    CASE key = "PageUp" -> 5 [] key = "PageDown" -> 6 [] key = "Delete" -> 3
      [] key = "Insert" -> 2

TildeKeys == {"PageUp", "PageDown", "Delete", "Insert"}

\* function_map, lines 594-607
FunctionSeq(key) ==
    CASE key = "F1" -> SS3 \o <<80>>  [] key = "F2" -> SS3 \o <<81>>
      [] key = "F3" -> SS3 \o <<82>>  [] key = "F4" -> SS3 \o <<83>>
      [] key = "F5" -> CSI \o <<49, 53, 126>>
      [] key = "F6" -> CSI \o <<49, 55, 126>>
      [] key = "F7" -> CSI \o <<49, 56, 126>>
      [] key = "F8" -> CSI \o <<49, 57, 126>>
      [] key = "F9" -> CSI \o <<50, 48, 126>>
      [] key = "F10" -> CSI \o <<50, 49, 126>>
      [] key = "F11" -> CSI \o <<50, 51, 126>>
      [] key = "F12" -> CSI \o <<50, 52, 126>>

\* line 64: self.enter_sequence
EnterSequence == IF platform # "win32" THEN <<LF>> ELSE <<CR>>

\* TextWrite without the startswith test of line 642
TextWrite_AlwaysPrefix(ev) ==
    IF ev.alt THEN <<ESC>> \o ev.text ELSE ev.text

\* IsCtrlLetter without the test of the Control modifier
IsCtrlLetter_AnyModifier(ev) == ev.text = <<>> /\ ev.key \in LetterKeys

\* line 634: no text, Control held, Key_A <= key <= Key_Z
IsCtrlLetter(ev) == ev.text = <<>> /\ ev.ctrl /\ ev.key \in LetterKeys

\* lines 640-644: literal text, ESC-prefixed under Alt
TextWrite(ev) ==
    IF ev.alt /\ Head(ev.text) # ESC THEN <<ESC>> \o ev.text ELSE ev.text

\* lines 512-648: the encoding rules, in the order of the code; the result is
\* the sequence of the strings passed to terminal.write
EncodeKey(ev, mode) ==
    IF ev.key \in CursorKeys
      THEN IF mode THEN <<SS3 \o <<CursorLetter(ev.key)>>>>
           ELSE <<CsiWithMod(ev, CursorLetter(ev.key))>>
    ELSE IF ev.key \in TildeKeys THEN <<TildeWithMod(ev, TildeDigit(ev.key))>>
    ELSE IF ev.key \in FunctionKeys THEN <<FunctionSeq(ev.key)>>
    ELSE IF ev.key \in {"Return", "Enter"} THEN <<EnterSequence>>
    ELSE IF ev.key = "Backspace" THEN <<<<127>>>>
    ELSE IF ev.key = "Tab" THEN <<<<9>>>>
    ELSE IF ev.key = "Backtab" THEN <<CSI \o <<90>>>>
    ELSE IF ev.key = "Escape" THEN <<<<ESC>>>>
    ELSE IF IsCtrlLetter(ev) THEN <<<<LetterOffset(ev.key) + 1>>>>
    ELSE IF ev.text # <<>> THEN <<TextWrite(ev)>>
    ELSE <<>>

\* lines 450-510: no shortcut consumes the event before the encoding rules
ReachesEncoder(ev, sel, quake) ==
    /\ ~(quake /\ QuakeShortcut(ev))
    /\ ~(sel /\ CopyShortcut(ev))
    /\ ~PasteShortcut(ev)
    /\ ~NewWindowShortcut(ev)
    /\ ~(sel /\ DefaultCopy(ev))
    /\ ~DefaultPaste(ev)

\* handle_key_press, lines 435-648: the shortcuts of lines 450-510, then the
\* encoding rules.  sel is cursor.hasSelection(), quake is "the window is a
\* MainWindow with quake_enabled", clip is the clipboard text.
KeyWrites(ev, sel, quake, clip, mode) ==
    IF quake /\ QuakeShortcut(ev) THEN <<>>
    ELSE IF sel /\ CopyShortcut(ev) THEN <<>>
    ELSE IF PasteShortcut(ev) THEN PasteWrites(clip)
    ELSE IF NewWindowShortcut(ev) THEN <<>>
    ELSE IF sel /\ DefaultCopy(ev) THEN <<>>
    ELSE IF DefaultPaste(ev) THEN PasteWrites(clip)
    ELSE EncodeKey(ev, mode)

\* TerminalEmulator.write, lines 218-233: what reaches the PTY
Sent(writes) == IF terminal_running /\ isalive THEN writes ELSE <<>>

\* ShellWidget.handle_key_press, with the calls of TerminalEmulator.write; E is
\* the set of the key events and P the set of the clipboard texts
handle_key_press(E, P) ==
    /\ gui_pc = "idle"
    /\ \E ev \in E, sel \in BOOLEAN, quake \in BOOLEAN :
         \E clip \in (IF PasteShortcut(ev) \/ DefaultPaste(ev)
                        THEN P ELSE {<<>>}) :
            ui' = [ui EXCEPT !.key =
                      [n |-> 1, event |-> ev, sel |-> sel, quake |-> quake,
                       clip |-> clip, mode |-> application_mode,
                       writes |-> KeyWrites(ev, sel, quake, clip, application_mode),
                       sent |-> Sent(KeyWrites(ev, sel, quake, clip,
                                               application_mode))]]
    /\ UNCHANGED <<config_vars, geom_vars, peer, clock, running, output_buffer,
                   terminal_running, isalive, history_top, events, gui_pc,
                   widget_vars, pc, pump_locals, n_read, n_fed, exit_calls, obs>>

\* ------------------------------------------------- colours and cell styles
\* a CSS colour "#rrggbb" is the sequence of its six hexadecimal digits, and
\* None stands for "no colour"
Hex2(n) == <<n \div 16, n % 16>>                   \* f"{n:02x}"

Css(r, g, b) == Hex2(r) \o Hex2(g) \o Hex2(b)       \* f"#{r:02x}{g:02x}{b:02x}"

\* lines 245-250
base16 ==
    <<<<0, 0, 0>>, <<205, 0, 0>>, <<0, 205, 0>>, <<205, 205, 0>>,
      <<0, 0, 238>>, <<205, 0, 205>>, <<0, 205, 205>>, <<229, 229, 229>>,
      <<127, 127, 127>>, <<255, 0, 0>>, <<0, 255, 0>>, <<255, 255, 0>>,
      <<92, 92, 255>>, <<255, 0, 255>>, <<0, 255, 255>>, <<255, 255, 255>>>>

\* line 254
steps == <<0, 95, 135, 175, 215, 255>>

RECURSIVE LoopB(_, _, _)
\* lines 258-260: for b in steps, from the step index b on
LoopB(r, g, b) ==
    IF b > Len(steps) THEN <<>>
    ELSE <<Css(steps[r], steps[g], steps[b])>> \o LoopB(r, g, b + 1)

RECURSIVE LoopG(_, _)
\* line 257: for g in steps, from the step index g on
LoopG(r, g) ==
    IF g > Len(steps) THEN <<>> ELSE LoopB(r, g, 1) \o LoopG(r, g + 1)

RECURSIVE LoopR(_)
\* line 256: for r in steps, from the step index r on
LoopR(r) ==
    IF r > Len(steps) THEN <<>> ELSE LoopG(r, 1) \o LoopR(r + 1)

\* lines 262-264: for i in range(24): level = 8 + i * 10
GreyRamp ==
    [k \in 1..24 |-> Css(8 + (k - 1) * 10, 8 + (k - 1) * 10, 8 + (k - 1) * 10)]

\* _build_xterm_palette: entry idx is xterm_palette[idx + 1]
xterm_palette ==
    [k \in 1..Len(base16) |-> Css(base16[k][1], base16[k][2], base16[k][3])]
        \o LoopR(1) \o GreyRamp

\* self.xterm_palette.get(idx)
PaletteGet(idx) ==
    IF idx >= 0 /\ idx < Len(xterm_palette) THEN xterm_palette[idx + 1]
    ELSE None

\* self.color_map.get(name, None), lines 78-99
ColorMapGet(name) ==
    CASE name = "black" -> Css(0, 0, 0)
      [] name = "red" -> Css(204, 0, 0)
      [] name = "green" -> Css(0, 153, 0)
      [] name \in {"yellow", "brown"} -> Css(153, 153, 0)
      [] name = "blue" -> Css(0, 0, 204)
      [] name = "magenta" -> Css(204, 0, 204)
      [] name = "cyan" -> Css(0, 153, 153)
      [] name \in {"white", "lightgray", "lightgrey"} -> Css(204, 204, 204)
      [] name = "brightblack" -> Css(85, 85, 85)
      [] name = "brightred" -> Css(255, 85, 85)
      [] name = "brightgreen" -> Css(85, 255, 85)
      [] name \in {"brightyellow", "brightbrown"} -> Css(255, 255, 85)
      [] name = "brightblue" -> Css(85, 85, 255)
      [] name = "brightmagenta" -> Css(255, 85, 255)
      [] name = "brightcyan" -> Css(85, 255, 255)
      [] name = "brightwhite" -> Css(255, 255, 255)
      [] OTHER -> None

\* the "Dark" theme of THEME_PRESETS (app_settings.py line 7)
base_bg == Css(0, 0, 0)

base_fg == Css(204, 204, 204)

RECURSIVE Dec(_)
\* str(i): the decimal digits of a number
Dec(i) == IF i < 10 THEN <<i>> ELSE Dec(i \div 10) \o <<i % 10>>

RECURSIVE DigitsValue(_)
\* int(value, 10)
DigitsValue(d) ==
    IF d = <<>> THEN 0
    ELSE 10 * DigitsValue(SubSeq(d, 1, Len(d) - 1)) + d[Len(d)]

\* the values of the fg and bg attributes of a cell: None, an integer, a
\* string of decimal digits, "#rrggbb" or "rrggbb", or a name
NoColour == [t |-> "none"]

IntColours == {[t |-> "int", v |-> i] : i \in -1..256}

DigitColours ==
    {[t |-> "digits", d |-> Dec(i)] : i \in 0..256}
        \cup {[t |-> "digits", d |-> <<1, 2, 3, 4, 5, 6>>]}

HexColours == {[t |-> "hex", d |-> Css(18, 171, 239)]}

NameColours == {[t |-> "name", s |-> n] : n \in {"default", "red", "orange"}}

\* _css_color, lines 199-219
CssColor(value) ==
    IF value.t = "none" THEN None
    ELSE IF value.t = "name" /\ value.s = "default" THEN None
    ELSE IF value.t = "int"
      THEN IF value.v = 0 THEN None        \* line 200: not value
           ELSE PaletteGet(value.v)
    ELSE IF value.t = "digits" /\ DigitsValue(value.d) >= 0
                               /\ DigitsValue(value.d) <= 255
      THEN PaletteGet(DigitsValue(value.d))
    ELSE IF value.t = "hex" THEN value.d
    ELSE IF value.t = "digits" /\ Len(value.d) = 6 THEN value.d
    ELSE IF value.t = "name" THEN ColorMapGet(value.s)
    ELSE None

\* the cells styled one at a time
Cells ==
    [data : {"a"},
     fg : {NoColour} \cup IntColours \cup DigitColours \cup HexColours
            \cup NameColours,
     bg : {NoColour, [t |-> "name", s |-> "default"],
           [t |-> "name", s |-> "red"], [t |-> "int", v |-> 244]},
     reverse : BOOLEAN, conceal : BOOLEAN, bold : BOOLEAN,
     italics : {FALSE}, underscore : BOOLEAN]

\* _style_for_char, lines 221-241: the declarations of the style, in order
StyleForChar(char) ==
    LET fg0 == CssColor(char.fg)
        bg0 == CssColor(char.bg)
        fg == IF char.reverse THEN bg0 ELSE fg0
        bg == IF char.reverse THEN fg0 ELSE bg0
    IN  (IF fg # None THEN <<<<"color", fg>>>> ELSE <<>>)
        \o (IF bg # None THEN <<<<"background-color", bg>>>> ELSE <<>>)
        \o (IF char.conceal THEN <<<<"color", "transparent">>>> ELSE <<>>)
        \o (IF char.bold THEN <<<<"font-weight", "bold">>>> ELSE <<>>)
        \o (IF char.italics THEN <<<<"font-style", "italic">>>> ELSE <<>>)
        \o (IF char.underscore THEN <<<<"text-decoration", "underline">>>>
            ELSE <<>>)

\* the value the declarations of a style give to a property; the <pre>
\* element of _wrap_html (line 164) supplies the value when none does
Shown(style, property, inherited) ==
    LET at == {i \in 1..Len(style) : style[i][1] = property}
    IN  IF at = {} THEN inherited
        ELSE style[CHOOSE i \in at : \A j \in at : j <= i][2]

\* _style_for_char applied to the cell ui.cell
style_cell ==
    /\ gui_pc = "idle"
    /\ ~ui.styled
    /\ ui' = [ui EXCEPT !.styled = TRUE,
                        !.fg = CssColor(ui.cell.fg),
                        !.bg = CssColor(ui.cell.bg),
                        !.style = StyleForChar(ui.cell)]
    /\ UNCHANGED <<config_vars, geom_vars, peer, clock, running, output_buffer,
                   terminal_running, isalive, history_top, events, gui_pc,
                   widget_vars, pc, pump_locals, n_read, n_fed, exit_calls, obs>>

\* ------------------------------------------------------------ the renderer
\* the cells of the rows rendered: an unstyled "a", a red "b", a red "<", a
\* blank with the reverse flag on red, and a bold blank
Cell(data, fg, reverse, bold) ==
    [data |-> data, fg |-> fg, bg |-> [t |-> "name", s |-> "default"],
     reverse |-> reverse, conceal |-> FALSE, bold |-> bold, italics |-> FALSE,
     underscore |-> FALSE]

PlainA == Cell("a", [t |-> "name", s |-> "default"], FALSE, FALSE)

RedB == Cell("b", [t |-> "name", s |-> "red"], FALSE, FALSE)

RedLt == Cell("<", [t |-> "digits", d |-> <<1, 9, 6>>], FALSE, FALSE)

ReverseBlank == Cell(" ", [t |-> "name", s |-> "red"], TRUE, FALSE)

BoldBlank == Cell(" ", [t |-> "name", s |-> "default"], FALSE, TRUE)

\* the rows of a screen of three columns (line_map[col], col = 0, 1, 2)
ScreenRows ==
    {<<PlainA, PlainA, PlainA>>, <<RedB, RedB, PlainA>>,
     <<RedB, PlainA, RedB>>, <<ReverseBlank, BoldBlank, RedLt>>}

HistoryRows ==
    {<<PlainA, RedB, RedB>>, <<RedLt, RedLt, BoldBlank>>}

\* the screens rendered: two lines of three columns, up to two rows scrolled
\* off the top, at most one row below, and the cursor.  cursor.x = columns is
\* the position pyte leaves the cursor at after a glyph was drawn in the last
\* column; cursor.y = lines is a cursor below a screen that has just shrunk
\* (lines 344-346).
Views ==
    [columns : {3}, lines : {2},
     top : {<<>>} \cup {<<h>> : h \in HistoryRows}
             \cup {<<<<PlainA, RedB, RedB>>, <<RedLt, RedLt, BoldBlank>>>>},
     buffer : [1..2 -> ScreenRows],
     bottom : {<<>>, <<<<RedB, RedB, RedB>>>>},
     cursor : [x : 0..3, y : 0..2]]

\* html.escape(ch)
Escape(ch) ==
    CASE ch = "<" -> "&lt;" [] ch = ">" -> "&gt;" [] ch = "&" -> "&amp;"
      [] OTHER -> ch

\* the character a piece of escaped text is displayed as; the no-break space
\* of line 296 is displayed as a blank
Displayed(text) ==
    CASE text = "&lt;" -> "<" [] text = "&gt;" -> ">" [] text = "&amp;" -> "&"
      [] text = "NBSP" -> " " [] OTHER -> text

\* CursorStyles without the exchange of the two colours
CursorStyles_NoSwap(char) ==
    LET base_style == StyleForChar(char)
        base_parts == SelectSeq(base_style,
                                LAMBDA part : part[1] \notin
                                    {"color", "background-color"})
        fg == IF CssColor(char.fg) # None THEN CssColor(char.fg) ELSE base_fg
        bg == IF CssColor(char.bg) # None THEN CssColor(char.bg) ELSE base_bg
    IN  base_parts \o <<<<"background-color", bg>>, <<"color", fg>>>>

\* lines 286-295: the declarations of the cursor cell
CursorStyles(char) ==
    LET base_style == StyleForChar(char)
        base_parts == SelectSeq(base_style,
                                LAMBDA part : part[1] \notin
                                    {"color", "background-color"})
        fg == IF CssColor(char.fg) # None THEN CssColor(char.fg) ELSE base_fg
        bg == IF CssColor(char.bg) # None THEN CssColor(char.bg) ELSE base_bg
    IN  base_parts \o <<<<"background-color", fg>>, <<"color", bg>>>>

\* SameStyle with every cell given a span of its own
SameStyle_Never(style, current_style) == FALSE

\* line 302: style != current_style, negated
SameStyle(style, current_style) == style = current_style

RECURSIVE RenderFrom(_, _, _, _, _, _)
\* the loop of _render_line from column col on (lines 273-308), with the
\* html_parts so far and current_style; the empty style is None (line 279)
RenderFrom(line_map, columns, col, cursor_col, html_parts, current_style) ==
    IF col >= columns
      THEN html_parts \o (IF current_style # <<>> THEN <<<<"/span">>>> ELSE <<>>)
    ELSE
      LET char == line_map[col + 1]
          ch == char.data
          style == StyleForChar(char)
      IN  IF col = cursor_col
            THEN RenderFrom(line_map, columns, col + 1, cursor_col,
                     html_parts
                       \o (IF current_style # <<>> THEN <<<<"/span">>>> ELSE <<>>)
                       \o <<<<"cursor-block", CursorStyles(char)>>,
                            <<"text", Escape(IF ch # " " THEN ch ELSE "NBSP")>>,
                            <<"/span">>>>,
                     <<>>)
          ELSE RenderFrom(line_map, columns, col + 1, cursor_col,
                   html_parts
                     \o (IF ~SameStyle(style, current_style)
                           THEN (IF current_style # <<>> THEN <<<<"/span">>>>
                                 ELSE <<>>)
                                \o (IF style # <<>> THEN <<<<"span", style>>>>
                                    ELSE <<>>)
                           ELSE <<>>)
                     \o <<<<"text", Escape(ch)>>>>,
                   IF SameStyle(style, current_style) THEN current_style
                   ELSE style)

\* _render_line, lines 268-316; cursor_col is -1 for None
RenderLine(line_map, columns, cursor_col) ==
    [plain |-> [c \in 1..columns |-> line_map[c].data],
     html |-> RenderFrom(line_map, columns, 0, cursor_col, <<>>, <<>>)]

\* HistoryActive with the history shown in every mode
HistoryActive_Always(alt) == TRUE

\* line 325: the screen is a HistoryScreen and not self.in_alternate_screen
HistoryActive(alt) == ~alt

\* _render_screen, lines 318-354: the plain and the html lines
RenderScreen(view, alt) ==
    LET history_active == HistoryActive(alt)
        cursor_row_offset == IF history_active THEN Len(view.top) ELSE 0
        line_sources ==
            (IF history_active THEN view.top ELSE <<>>)
              \o [row \in 1..view.lines |-> view.buffer[row]]
              \o (IF history_active /\ view.bottom # <<>> THEN view.bottom
                  ELSE <<>>)
        cursor_line_index == cursor_row_offset + view.cursor.y
        shown == cursor_line_index < Len(line_sources)
        rendered ==
            [idx \in 1..Len(line_sources) |->
                RenderLine(line_sources[idx], view.columns,
                           IF shown /\ idx - 1 = cursor_line_index
                             THEN view.cursor.x ELSE -1)]
    IN  [plain |-> [idx \in 1..Len(line_sources) |-> rendered[idx].plain],
         html |-> [idx \in 1..Len(line_sources) |-> rendered[idx].html]]

\* _wrap_html, lines 154-167
WrapHtml(body, blink) ==
    [blink_rule |-> IF blink THEN "animation: cursor-blink" ELSE "animation: none",
     background |-> base_bg, color |-> base_fg, body |-> body]

\* ViewAfterRender with the rows below the screen consumed by the pass
ViewAfterRender_Consumed(view) == [view EXCEPT !.bottom = <<>>]

\* the screen, the ledger and the cursor after _render_screen, which only
\* reads them
ViewAfterRender(view) == view

\* the render pass of append_output, lines 389-391: _render_screen,
\* _wrap_html and setHtml
render ==
    /\ gui_pc = "idle"
    /\ Len(ui.frames) < MaxRenders
    /\ LET display == RenderScreen(ui.view, in_alternate_screen)
       IN  ui' = [ui EXCEPT
                    !.frames = Append(ui.frames,
                                      [text |-> display.plain,
                                       page |-> WrapHtml(display.html,
                                                         ui.cursor_blink)]),
                    !.view = ViewAfterRender(ui.view)]
    /\ UNCHANGED <<config_vars, geom_vars, peer, clock, running, output_buffer,
                   terminal_running, isalive, history_top, events, gui_pc,
                   widget_vars, pc, pump_locals, n_read, n_fed, exit_calls, obs>>

\* ------------------------------------- calls on an emulator with no session
\* TerminalEmulator.read called on the emulator of a failed construction:
\* line 188 returns '' when running is False; otherwise pty_process is None,
\* the call of isalive raises and lines 212-215 clear running and return ''
emulator_read ==
    /\ pc = "unstarted"
    /\ terminal_running' = FALSE
    /\ ui' = [ui EXCEPT !.calls.read_called = TRUE,
                        !.calls.read_returned = <<>>]
    /\ UNCHANGED <<config_vars, geom_vars, peer, clock, running, output_buffer,
                   isalive, history_top, events, gui_pc, widget_vars, pc,
                   pump_locals, n_read, n_fed, exit_calls, obs>>

\* TerminalEmulator.write called on the emulator of a failed construction:
\* line 218 returns when running is False; otherwise pty_process is None, the
\* call of isalive raises and lines 234-236 clear running; nothing is sent
emulator_write ==
    /\ pc = "unstarted"
    /\ terminal_running' = FALSE
    /\ ui' = [ui EXCEPT !.calls.write_called = TRUE, !.calls.sent = <<>>]
    /\ UNCHANGED <<config_vars, geom_vars, peer, clock, running, output_buffer,
                   isalive, history_top, events, gui_pc, widget_vars, pc,
                   pump_locals, n_read, n_fed, exit_calls, obs>>

\* ------------------------------------------- the second session of a split
\* the work of the second session, as the values its fields take in turn: its
\* append_output sets its mode flags; its pump fills its buffer and its
\* update_terminal_size records a new geometry; its stop clears its running
\* flag
PeerRun ==
    LET p1 == [PeerStart EXCEPT !.application_mode = TRUE,
                                !.in_alternate_screen = TRUE,
                                !.alt_history_marker = <<0, 0>>]
        p2 == [p1 EXCEPT !.output_buffer = <<[id |-> 1, k |-> "o"]>>,
                         !.cols = 40, !.rows = 12]
        p3 == [p2 EXCEPT !.running = FALSE]
    IN  <<PeerStart, p1, p2, p3>>

\* the next operation of the second session on its own fields
peer_step ==
    /\ \E i \in 1..(Len(PeerRun) - 1) :
          peer = PeerRun[i] /\ peer' = PeerRun[i + 1]
    /\ UNCHANGED <<config_vars, geom_vars, ui, clock, running, output_buffer,
                   terminal_running, isalive, history_top, events, gui_pc,
                   widget_vars, pc, pump_locals, n_read, n_fed, exit_calls, obs>>

\* ------------------------------------------------------------ environment
\* the child process exits
process_exits ==
    /\ isalive
    /\ isalive' = FALSE
    /\ UNCHANGED <<config_vars, geom_vars, ui, peer, clock, running, output_buffer, terminal_running,
                   history_top, events, gui_pc, widget_vars, pc, pump_locals,
                   n_read, n_fed, exit_calls, obs>>

\* ------------------------------------- the marker scan on bytes (GUI thread)
\* lines 364-366: "\x1b[?1h", "\x1b[?66h" / "\x1b[?1l", "\x1b[?66l"
KeypadSetMarkers == {CSI \o <<63, 49, 104>>, CSI \o <<63, 54, 54, 104>>}

KeypadResetMarkers == {CSI \o <<63, 49, 108>>, CSI \o <<63, 54, 54, 108>>}

\* lines 369 and 374: ESC[?1049h, ESC[?47h, ESC[?1047h and their l forms
AltEntryMarkers == {CSI \o <<63, 49, 48, 52, 57, 104>>, CSI \o <<63, 52, 55, 104>>,
                    CSI \o <<63, 49, 48, 52, 55, 104>>}

AltExitMarkers == {CSI \o <<63, 49, 48, 52, 57, 108>>, CSI \o <<63, 52, 55, 108>>,
                   CSI \o <<63, 49, 48, 52, 55, 108>>}

\* marker occurs in text at position i
OccursAt(marker, text, i) ==
    /\ i + Len(marker) - 1 <= Len(text)
    /\ SubSeq(text, i, i + Len(marker) - 1) = marker

\* what the substring tests of lines 364-374 find at position i of text
KindAt(text, i) ==
    IF \E m \in KeypadSetMarkers : OccursAt(m, text, i) THEN "Kh"
    ELSE IF \E m \in KeypadResetMarkers : OccursAt(m, text, i) THEN "Kl"
    ELSE IF \E m \in AltEntryMarkers : OccursAt(m, text, i) THEN "E"
    ELSE IF \E m \in AltExitMarkers : OccursAt(m, text, i) THEN "X"
    ELSE "o"

\* a chunk of bytes as append_output scans it: each position with the marker
\* that starts there; the bytes of the chunk are numbered from offset + 1
Scanned(text, offset) ==
    [i \in 1..Len(text) |-> [id |-> offset + i, k |-> KindAt(text, i)]]

\* lines 369-383 on the flag alone: in_alternate_screen after a chunk
AltAfter(text, alt) ==
    IF Contains(text, "X") THEN FALSE
    ELSE IF Contains(text, "E") THEN TRUE
    ELSE alt

\* the pieces of the byte streams: the four DEC private mode markers and a
\* printable byte
Pieces == {CSI \o <<63, 49, 104>>, CSI \o <<63, 49, 108>>,
           CSI \o <<63, 49, 48, 52, 57, 104>>, CSI \o <<63, 49, 48, 52, 57, 108>>,
           <<97>>}

RECURSIVE Joined(_)
Joined(ps) == IF ps = <<>> THEN <<>> ELSE Head(ps) \o Joined(Tail(ps))

\* the byte streams of at most MaxPieces pieces
Streams == {Joined(ps) : ps \in SeqsUpTo(MaxPieces, Pieces)}

\* the chunk of ui.stream that is handed over next: the stream is cut once,
\* after ui.cut bytes (TerminalThread.run, lines 31-47: a read of at most
\* 1024 bytes and a flush may end anywhere in the stream)
NextChunk ==
    IF ui.done = 0 THEN SubSeq(ui.stream, 1, ui.cut)
    ELSE SubSeq(ui.stream, ui.cut + 1, Len(ui.stream))

\* ShellWidget.append_output(text) for the next chunk of the byte stream
append_output_bytes ==
    /\ gui_pc = "idle"
    /\ ui.done < 2
    /\ append_output(Scanned(NextChunk, IF ui.done = 0 THEN 0 ELSE ui.cut))
    /\ ui' = [ui EXCEPT !.done = @ + 1]
    /\ UNCHANGED <<config_vars, geom_vars, clock, running, output_buffer,
                   terminal_running, isalive, events, gui_pc, pc, pump_locals,
                   n_read, n_fed, exit_calls>>

\* ------------------------------------------------------------------- Spec
\* the pump on its normal path
PumpNext(K) ==
    \/ run_start \/ run_while \/ run_isalive
    \/ read_not_running \/ read_data(K) \/ read_empty \/ read_feed
    \/ run_append_load \/ run_append_store \/ run_thresh \/ run_cond
    \/ run_emit \/ run_clear \/ run_sleep
    \/ run_final_check \/ run_final_emit \/ run_final_clear
    \/ run_exit_callback

\* closeEvent: stop(), then close()
CloseNext ==
    \/ stop_running \/ stop_check \/ stop_emit \/ stop_clear
    \/ close \/ close_terminate

\* failures of the collaborators
FailNext ==
    \/ run_isalive_raises
    \/ run_except_check \/ run_except_emit \/ run_except_clear
    \/ read_raises \/ write_raises \/ close_write_raises

\* a session producing plain output, with every failure the code handles
Next ==
    \/ PumpNext(PlainKinds) \/ deliver \/ write \/ CloseNext \/ FailNext
    \/ process_exits

Spec == Init /\ [][Next]_vars

\* the child prints one byte and is silent from then on
FirstByte == IF n_read = 0 THEN PlainKinds ELSE {}

\* every step of the pump thread, the except clause of run() included
PumpStep ==
    \/ PumpNext(FirstByte)
    \/ run_isalive_raises \/ read_raises
    \/ run_except_check \/ run_except_emit \/ run_except_clear

NextFair ==
    \/ PumpNext(FirstByte) \/ deliver \/ write \/ CloseNext \/ FailNext
    \/ process_exits

\* the session with the pump's QThread scheduled fairly; the GUI thread, the
\* child and the failures stay free
SpecFair == Init /\ [][NextFair]_vars /\ WF_vars(PumpStep)

\* a session running a full-screen program; no collaborator fails and the
\* child process runs until the session is closed
InitScreen == Init /\ platform = "unix"

NextScreen ==
    \/ PumpNext(ScreenKinds) \/ deliver \/ CloseNext

SpecScreen == InitScreen /\ [][NextScreen]_vars

\* a session producing plain output, with the arrival times recorded
InitTimed == Start(TRUE) /\ platform = "unix"

NextTimed ==
    \/ PumpNext(PlainKinds) \/ deliver \/ process_exits

SpecTimed ==
    /\ InitTimed
    /\ [][NextTimed]_vars

\* the timed session with the pump thread and the GUI event loop scheduled
\* fairly: the operating system keeps running the pump's QThread, and the
\* event loop keeps delivering queued emissions.  What the child prints, and
\* whether it exits, stays free.
SpecPumpFair ==
    /\ SpecTimed
    /\ WF_vars(PumpNext(PlainKinds))
    /\ WF_vars(deliver)

\* a byte stream reaches append_output in two chunks, cut anywhere; the
\* session starts in either keypad mode, in the live view or with a
\* full-screen program running
InitChunks ==
    /\ \E st \in Streams, mode \in BOOLEAN, alt \in BOOLEAN :
         \E c \in 0..Len(st) :
            Built(FALSE, mode, TRUE, alt,
                  [stream |-> st, cut |-> c, done |-> 0,
                   mode_at_start |-> mode, alt_at_start |-> alt])
    /\ platform = "unix"

NextChunks == append_output_bytes

SpecChunks == InitChunks /\ [][NextChunks]_vars

\* the ledgers of a session that has printed before: rows -2 and -1 scrolled
\* off the top, in that order
Ledgers == {<<>>, <<-1>>, <<-2, -1>>}

\* a full-screen program is started in a session that has scrollback; the
\* child runs until it exits by itself
InitLedger ==
    /\ \E top \in Ledgers :
         BuiltOn(FALSE, FALSE, TRUE, FALSE, UiStart(TRUE), top, <<>>)
    /\ platform = "unix"

NextLedger == PumpNext(ScreenKinds) \/ deliver \/ process_exits

SpecLedger == InitLedger /\ [][NextLedger]_vars

\* a session whose child prints single bytes and bursts, with the arrival
\* times recorded
NextBurst ==
    \/ PumpNext(BurstKinds) \/ deliver \/ process_exits

SpecBurst == InitTimed /\ [][NextBurst]_vars

\* a session running a program that switches the keypad mode
InitModes == Init /\ platform = "unix"

NextModes == PumpNext(ModeKinds) \/ deliver \/ process_exits

SpecModes == InitModes /\ [][NextModes]_vars

\* the key handler applied to every key event, in either keypad mode
InitKeys == StartWith(FALSE, FALSE) \/ StartWith(FALSE, TRUE)

\* one key event per run: the encoder keeps nothing from one event to the next
FirstKey == IF ui.key.n = 0 THEN KeyEvents ELSE {}

NextKeys == handle_key_press(FirstKey, PasteTexts)

SpecKeys == InitKeys /\ [][NextKeys]_vars

\* a session whose pane is resized; the collaborators may fail
NextGeometry == update_terminal_size(Viewports)

SpecGeometry == Init /\ [][NextGeometry]_vars

\* two sessions in one window: the first reads ESC[?1h, receives one
\* key or paste event, is resized and closed, while the second does its own work
FirstRead == IF n_read = 0 THEN {"Kh"} ELSE {}

PasteKey == {[key |-> "V", shift |-> TRUE, alt |-> FALSE, ctrl |-> TRUE,
              text |-> <<>>]}

SessionKeys == IF ui.key.n = 0 THEN UpKey \cup PasteKey ELSE {}

SessionClip == {<<97, CR, LF, 98, CR, 99>>}

\* the operations of the first session
SessionNext ==
    \/ PumpNext(FirstRead) \/ deliver
    \/ handle_key_press(SessionKeys, SessionClip)
    \/ update_terminal_size(SmallViewport)
    \/ CloseNext

NextSessions == SessionNext \/ peer_step

SpecSessions == InitModes /\ [][NextSessions]_vars

\* the construction of a session, whose spawn succeeds or fails
InitSpawn == (Init \/ StartFailed) /\ platform = "unix"

NextSpawn ==
    \/ PumpNext(FirstRead) \/ deliver \/ process_exits
    \/ emulator_read \/ emulator_write

SpecSpawn == InitSpawn /\ [][NextSpawn]_vars

\* a cell of the screen is styled
InitStyle ==
    /\ \E c \in Cells :
          Built(FALSE, FALSE, TRUE, FALSE,
                [cell |-> c, styled |-> FALSE, fg |-> None, bg |-> None,
                 style |-> <<>>])
    /\ platform = "unix"

NextStyle == style_cell

SpecStyle == InitStyle /\ [][NextStyle]_vars

\* a screen is rendered, in the live view or while a full-screen program runs
InitRender ==
    /\ \E v \in Views, alt \in BOOLEAN, blink \in BOOLEAN :
          Built(FALSE, FALSE, TRUE, alt,
                [view |-> v, cursor_blink |-> blink, frames |-> <<>>])
    /\ platform = "unix"

NextRender == render

SpecRender == InitRender /\ [][NextRender]_vars

\* ------------------------------------------------------------- properties
\* the ids emitted so far: handed to append_output or waiting in the queue
EmittedSeq == received \o Flatten(events)

EmittedIds == {EmittedSeq[i] : i \in 1..Len(EmittedSeq)}

InOrder(q) == \A i, j \in 1..Len(q) : i < j => q[i] <= q[j]

\* C1: alt-screen round trip.  With exactly one entry marker fed so far and
\* no row fed after the exit marker, when the first chunk with an exit marker
\* is processed in a later call of append_output than the entry, the ledger
\* has the lengths it had when the entry marker was fed.
C1_AltScreenRoundTrip ==
    obs.exit_lens # None => obs.exit_lens = obs.entry_lens

\* C2: alternateScreenActive holds exactly when a history-bounds snapshot
\* exists, so neither is ever set or cleared without the other.
C2_SnapshotWhileAlternate ==
    in_alternate_screen <=> alt_history_marker # None

\* C2 witness: alternate-screen mode was left once and has been entered again
C2_Witness ==
    in_alternate_screen /\ alt_history_marker # None /\ obs.exits = 1

\* C3: no render pass runs while the state engine is being fed, and none sees
\* a state engine fed beyond the chunks handed to the consumer.
C3_AtomicFeedRender ==
    ~obs.render_in_feed /\ ~obs.render_ahead

\* C4: at most one flush is in flight, and the consumer receives the pieces
\* in the order the pump read them.
C4_OneFlushInOrder ==
    ~(PumpFlushing /\ StopFlushing) /\ InOrder(received)

\* C5: outside a flush, the buffer holds nothing that was already handed over.
C5_BufferNotRetained ==
    (~PumpFlushing /\ ~StopFlushing) => Ids(output_buffer) \cap EmittedIds = {}

\* C6: with single-byte reads less than buffer_time_threshold apart, a flush
\* comes no later than buffer_time_threshold after the arrival of the oldest
\* byte it carries.
C6_FlushWithinThreshold ==
    (pc = "emit" /\ obs.first_unflushed # -1 /\ obs.gaps_ok)
        => current_time - obs.first_unflushed <= buffer_time_threshold

\* C7: when the loop was left because the process died or an error occurred,
\* the exit callback runs only after the final flush: the buffer is empty and
\* every piece read has been emitted.
C7_FlushBeforeExit ==
    (exit_calls > 0 /\ obs.exit_cause \in {"dead", "error", "exception"})
        => (output_buffer = <<>> /\ (1..n_read) \subseteq EmittedIds)

\* C7 witness: the process died, the final flush emitted a non-empty buffer,
\* then the callback ran
C7_Witness ==
    exit_calls = 1 /\ obs.exit_cause = "dead" /\ obs.final_flush

\* C8: after process death or an I/O failure the pump ends with the session
\* not running and the exit callback invoked exactly once.
C8_ExitExactlyOnce ==
    (pc = "done" /\ obs.exit_cause \in {"dead", "error"})
        => (exit_calls = 1 /\ ~terminal_running)

\* C9: a read or write error marks the session not running, and no read
\* follows a read error.
C9_ErrorsStopSession ==
    /\ (obs.read_failed \/ obs.write_failed) => ~terminal_running
    /\ ~obs.read_after_fail

\* C10: once closeEvent has returned and the pump has ended, every byte the
\* pump read has been handed to the consumer; the PTY is shut down with the
\* exit command first and the forced termination second.
C10_StopFlushesThenTerminates ==
    /\ (pc = "done" /\ gui_pc = "closed") => (1..n_read) \subseteq EmittedIds
    /\ obs.pty_log \in {<<>>, <<"exit">>, <<"exit", "terminate">>}

\* C16: after a chunk is processed, applicationKeypadMode has the setting of
\* the last keypad-mode marker the consumer has been handed.
C16_KeypadModeFollowsMarkers ==
    application_mode = obs.last_mode_marker

\* C11: as long as no collaborator resize has failed, the recorded (cols, rows),
\* the PTY window size and the screen dimensions agree, from start on.
C11_GeometryLockstep ==
    ~ui.resize_failed =>
        (pty_winsize = <<rows, cols>> /\ screen_size = <<rows, cols>>)

\* C11 witness: resizes have changed the geometry to a non-square size other
\* than the initial one, and none has failed
C11_Witness ==
    /\ ~ui.resize_failed /\ ui.resize.n = 2 /\ ui.resize.changed
    /\ cols # rows /\ cols # default_cols /\ rows # default_rows

\* C12: a request for the current dimensions calls nothing and renders
\* nothing; any other request resizes the PTY, then the screen, then renders
\* once.
C12_ResizeSequence ==
    ui.resize.n > 0 =>
        ui.resize.calls = (IF ui.resize.changed
                             THEN <<"setwinsize", "screen.resize", "render">>
                             ELSE <<>>)

\* C12 witness: after an effective resize, a request for the same dimensions
C12_Witness ==
    ui.resize.n = 2 /\ ~ui.resize.changed /\ cols # default_cols

\* C13: a failing collaborator resize leaves the running flags and the mode
\* flags alone, the other collaborator is still resized and the render pass
\* still happens; a resize in which nothing fails restores the agreement.
C13_ResizeFailureNonFatal ==
    /\ [](ui.resize.changed =>
            /\ ui.resize.calls = <<"setwinsize", "screen.resize", "render">>
            /\ (ui.resize.pty_failed /\ ~ui.resize.screen_failed)
                   => screen_size = <<rows, cols>>
            /\ (ui.resize.screen_failed /\ ~ui.resize.pty_failed)
                   => pty_winsize = <<rows, cols>>
            /\ (~ui.resize.pty_failed /\ ~ui.resize.screen_failed)
                   => (pty_winsize = <<rows, cols>> /\ screen_size = <<rows, cols>>))
    /\ [][update_terminal_size(Viewports) =>
              UNCHANGED <<running, terminal_running, application_mode,
                          in_alternate_screen, alt_history_marker>>]_vars

\* C13 witness: a PTY resize failed, and the next resize succeeded
C13_Witness ==
    /\ ui.resize_failed /\ ui.resize.changed
    /\ ~ui.resize.pty_failed /\ ~ui.resize.screen_failed
    /\ pty_winsize = <<rows, cols>> /\ screen_size = <<rows, cols>>

C18_EncoderIgnoresSelection ==
    ui.key.n > 0 =>
        \A sel2 \in BOOLEAN :
            KeyWrites(ui.key.event, sel2, ui.key.quake, ui.key.clip, ui.key.mode)
                = ui.key.writes

\* C19: a paste of a non-empty text is one write of the text with every CR LF
\* and every lone CR turned into LF: no CR is left, normalizing again changes
\* nothing, and nothing else is added or changed.
C19_PasteNormalized ==
    LET clip == ui.key.clip
        kept == {i \in 1..Len(clip) :
                    ~(clip[i] = 10 /\ i > 1 /\ clip[i - 1] = 13)}
        kth(j) == CHOOSE i \in kept : Cardinality({m \in kept : m < i}) = j - 1
        expected == [j \in 1..Cardinality(kept) |->
                        IF clip[kth(j)] = 13 THEN 10 ELSE clip[kth(j)]]
    IN  (/\ ui.key.n > 0
         /\ PasteShortcut(ui.key.event) \/ DefaultPaste(ui.key.event)
         /\ clip # <<>>)
          => /\ ui.key.writes = <<expected>>
             /\ \A i \in 1..Len(ui.key.writes[1]) : ui.key.writes[1][i] # 13
             /\ Normalize(ui.key.writes[1]) = ui.key.writes[1]

\* C19 witness: a CR LF b CR c was pasted and sent as a LF b LF c
C19_Witness ==
    /\ ui.key.n > 0
    /\ ui.key.clip = <<97, 13, 10, 98, 13, 99>>
    /\ ui.key.writes = <<<<97, 10, 98, 10, 99>>>>

\* C20: a letter key pressed with Ctrl alone, with no literal text and nothing
\* selected, is sent as the single byte letter offset + 1.
C20_CtrlLetterByte ==
    (/\ ui.key.n > 0
     /\ ui.key.event.key \in LetterKeys
     /\ ui.key.event.ctrl /\ ~ui.key.event.shift /\ ~ui.key.event.alt
     /\ ui.key.event.text = <<>>
     /\ ~ui.key.sel)
      => ui.key.writes = <<<<LetterOffset(ui.key.event.key) + 1>>>>

C15_SpawnFailure ==
    ui.spawn_reports > 0 =>
        /\ ui.spawn_reports = 1
        /\ ~terminal_running /\ ~running
        /\ pc = "unstarted" /\ n_read = 0 /\ output_buffer = <<>>
        /\ events = <<>> /\ received = <<>>
        /\ ui.calls.read_returned = <<>>
        /\ ui.calls.sent = <<>> /\ obs.pty_log = <<>>

\* C15 witness: after a failed spawn both a read and a write were attempted
C15_Witness ==
    ui.spawn_reports = 1 /\ ui.calls.read_called /\ ui.calls.write_called

C22_TildeKeys ==
    LET ev == ui.key.event
        n == CASE ev.key = "PageUp" -> 5 [] ev.key = "PageDown" -> 6
               [] ev.key = "Delete" -> 3 [] ev.key = "Insert" -> 2
        param == 1 + (IF ev.shift THEN 1 ELSE 0) + (IF ev.alt THEN 2 ELSE 0)
                   + (IF ev.ctrl THEN 4 ELSE 0)
    IN  (/\ ui.key.n > 0
         /\ ev.key \in {"PageUp", "PageDown", "Delete", "Insert"}
         /\ ~ui.key.sel)
          => ui.key.writes =
               <<IF param = 1 THEN <<27, 91, 48 + n, 126>>
                 ELSE <<27, 91, 48 + n, 59, 48 + param, 126>>>>

\* C23: a key event with no literal text whose key no encoding rule names
\* writes nothing and sends nothing, the handler ends normally, and no key
\* event changes the mode flags, the running flags or the pending buffer.
C23_UnknownKeyDropped ==
    /\ [](LET ev == ui.key.event
          IN  (/\ ui.key.n > 0
               /\ ev.text = <<>>
               /\ ev.key \notin {"Up", "Down", "Right", "Left", "Home", "End",
                                  "PageUp", "PageDown", "Delete", "Insert",
                                  "Return", "Enter", "Backspace", "Tab",
                                  "Backtab", "Escape"} \cup FunctionKeys
               /\ ~(ev.ctrl /\ ev.key \in LetterKeys))
                => (ui.key.writes = <<>> /\ ui.key.sent = <<>>
                    /\ gui_pc = "idle"))
    /\ [][ui.key' # ui.key =>
            UNCHANGED <<application_mode, in_alternate_screen,
                        alt_history_marker, running, terminal_running,
                        output_buffer>>]_vars

\* C23 witness: the Menu key with Shift held and no text was handled
C23_Witness ==
    /\ ui.key.n > 0 /\ ui.key.event.key = "Menu" /\ ui.key.event.shift
    /\ ui.key.event.text = <<>> /\ ui.key.writes = <<>>

\* C27: a colour index i in 0..255, given as an integer or as a string of
\* decimal digits, resolves to the xterm palette entry: one of the sixteen
\* base colours below 16, the cube colour with the levels
\* L[(i-16) div 36], L[((i-16) div 6) mod 6], L[(i-16) mod 6] up to 231, and
\* the grey of level 8 + 10*(i-232) from 232 on; 196 is #ff0000 and 244 is
\* #808080.
C27_PaletteResolution ==
    LET v == ui.cell.fg
        i == IF v.t = "int" THEN v.v ELSE DigitsValue(v.d)
        L == <<0, 95, 135, 175, 215, 255>>
        hex(n) == <<n \div 16, n % 16>>
        rgb(r, g, b) == hex(r) \o hex(g) \o hex(b)
    IN  (/\ ui.styled
         /\ v.t = "int" \/ (v.t = "digits" /\ v.d = Dec(DigitsValue(v.d)))
         /\ i >= 0 /\ i <= 255)
          => /\ i < 16 => ui.fg = rgb(base16[i + 1][1], base16[i + 1][2],
                                      base16[i + 1][3])
             /\ (i >= 16 /\ i <= 231) =>
                   ui.fg = rgb(L[((i - 16) \div 36) + 1],
                               L[(((i - 16) \div 6) % 6) + 1],
                               L[((i - 16) % 6) + 1])
             /\ i >= 232 => ui.fg = rgb(8 + 10 * (i - 232), 8 + 10 * (i - 232),
                                        8 + 10 * (i - 232))
             /\ i = 196 => ui.fg = <<15, 15, 0, 0, 0, 0>>
             /\ i = 244 => ui.fg = <<8, 0, 8, 0, 8, 0>>

\* C28: the colours a styled cell is shown in are its resolved foreground on
\* its resolved background, the default colours being those of the base
\* palette, and the two are exchanged for a cell with the reverse flag, also
\* when one or both of them are the default colour.
C28_ReverseVideo ==
    LET fg == IF ui.fg = None THEN base_fg ELSE ui.fg
        bg == IF ui.bg = None THEN base_bg ELSE ui.bg
    IN  (ui.styled /\ ~ui.cell.conceal) =>
          /\ Shown(ui.style, "color", base_fg)
                = (IF ui.cell.reverse THEN bg ELSE fg)
          /\ Shown(ui.style, "background-color", base_bg)
                = (IF ui.cell.reverse THEN fg ELSE bg)

\* the rows _render_screen assembles for the screen of this state
LineSources ==
    IF in_alternate_screen THEN ui.view.buffer
    ELSE ui.view.top \o ui.view.buffer \o ui.view.bottom

\* the index in a rendered line of the text of column col (0-based)
TextAt(line, col) ==
    CHOOSE i \in 1..Len(line) :
        /\ line[i][1] = "text"
        /\ Cardinality({j \in 1..(i - 1) : line[j][1] = "text"}) = col

\* what SpanAt gives inside the cursor block
InCursorBlock == <<<<"cursor-block", <<>>>>>>

\* the style of the span that encloses position i of a rendered line: the
\* declarations of the span, InCursorBlock for a cursor block, or <<>>
\* outside every span
SpanAt(line, i) ==
    LET marks == {j \in 1..(i - 1) : line[j][1] # "text"}
        last == CHOOSE j \in marks : \A m \in marks : m <= j
    IN  IF marks = {} THEN <<>>
        ELSE IF line[last][1] = "/span" THEN <<>>
        ELSE IF line[last][1] = "cursor-block" THEN InCursorBlock
        ELSE line[last][2]

C25_LineAssembly ==
    LET assembled == IF in_alternate_screen
                  THEN [r \in 1..ui.view.lines |-> ui.view.buffer[r]]
                ELSE ui.view.top
                       \o [r \in 1..ui.view.lines |-> ui.view.buffer[r]]
                       \o ui.view.bottom
    IN  \A n \in 1..Len(ui.frames) :
          /\ ui.frames[n].text =
                [k \in 1..Len(assembled) |->
                    [c \in 1..ui.view.columns |-> assembled[k][c].data]]
          /\ Len(ui.frames[n].page.body) = Len(assembled)
          /\ \A k \in 1..Len(assembled) : \A c \in 1..ui.view.columns :
                Displayed(ui.frames[n].page.body[k]
                            [TextAt(ui.frames[n].page.body[k], c - 1)][2])
                    = assembled[k][c].data

\* C25 witness: with history above and below, a full-screen program's grid
\* was rendered as two lines
C25_Witness ==
    /\ in_alternate_screen /\ ui.view.top # <<>> /\ ui.view.bottom # <<>>
    /\ Len(ui.frames) > 0 /\ Len(ui.frames[1].text) = 2
    /\ ui.frames[1].text[1] = <<"b", "b", "a">>

\* C26: the line of the cursor is len(history.above) + cursor.row in the
\* live view and cursor.row in the alternate screen; when that line is one
\* of the rendered lines the cursor block is drawn on it, at cursor.col, and
\* on no other line, and otherwise no cursor block is drawn.
C26_CursorPlacement ==
    \A n \in 1..Len(ui.frames) :
        LET body == ui.frames[n].page.body
            index == (IF in_alternate_screen THEN 0 ELSE Len(ui.view.top))
                        + ui.view.cursor.y
            blocks(line) == {i \in 1..Len(line) : line[i][1] = "cursor-block"}
        IN  IF index < Len(body)
              THEN /\ \A k \in 1..Len(body) :
                        Cardinality(blocks(body[k]))
                            = (IF k = index + 1 THEN 1 ELSE 0)
                   /\ \A i \in blocks(body[index + 1]) :
                        Cardinality({j \in 1..(i - 1) :
                                        body[index + 1][j][1] = "text"})
                            = ui.view.cursor.x
              ELSE \A k \in 1..Len(body) : blocks(body[k]) = {}

\* C29: in a rendered line each cell outside the cursor block lies in a span
\* of its resolved style (in no span when the style is empty), two adjacent
\* such cells lie in the same run exactly when their styles are equal, no
\* span follows a span of the same style, and the displayed text of the
\* line is the row's glyphs in column order.
C29_RunMerging ==
    \A n \in 1..Len(ui.frames) :
      \A k \in 1..Len(ui.frames[n].page.body) :
        LET line == ui.frames[n].page.body[k]
            row == LineSources[k]
            at(c) == TextAt(line, c - 1)
            plain(c) == SpanAt(line, at(c)) # InCursorBlock
        IN  /\ Cardinality({i \in 1..Len(line) : line[i][1] = "text"})
                  = ui.view.columns
            /\ \A c \in 1..ui.view.columns :
                  /\ Displayed(line[at(c)][2]) = row[c].data
                  /\ plain(c) => SpanAt(line, at(c)) = StyleForChar(row[c])
            /\ \A c \in 1..(ui.view.columns - 1) :
                  (plain(c) /\ plain(c + 1)) =>
                      ((StyleForChar(row[c]) = StyleForChar(row[c + 1]))
                          <=> at(c + 1) = at(c) + 1)
            /\ \A i \in 2..(Len(line) - 1) :
                  (line[i][1] = "/span" /\ line[i + 1][1] = "span")
                      => SpanAt(line, i) # line[i + 1][2]

\* C29 witness: the row red b, red b, plain a was rendered as one red span
\* holding "bb" followed by an unstyled "a"
C29_Witness ==
    /\ Len(ui.frames) > 0
    /\ \E k \in 1..Len(ui.frames[1].page.body) :
          ui.frames[1].page.body[k] =
              <<<<"span", <<<<"color", <<12, 12, 0, 0, 0, 0>>>>>>>>,
                <<"text", "b">>, <<"text", "b">>, <<"/span">>,
                <<"text", "a">>>>

\* C30: the cursor block has the cell's resolved foreground as its
\* background and the cell's resolved background as its foreground, the
\* default colours being those of the base palette, and the styled lines
\* are the same with cursor blink enabled and disabled.
C30_CursorCellStyle ==
    \A n \in 1..Len(ui.frames) :
      /\ \A k \in 1..Len(ui.frames[n].page.body) :
          LET line == ui.frames[n].page.body[k]
              row == LineSources[k]
          IN  \A i \in 1..Len(line) :
                line[i][1] = "cursor-block" =>
                  LET char == row[Cardinality({j \in 1..(i - 1) :
                                                line[j][1] = "text"}) + 1]
                      fg == IF CssColor(char.fg) = None THEN base_fg
                            ELSE CssColor(char.fg)
                      bg == IF CssColor(char.bg) = None THEN base_bg
                            ELSE CssColor(char.bg)
                  IN  /\ Shown(line[i][2], "background-color", None) = fg
                      /\ Shown(line[i][2], "color", None) = bg
      /\ \A blink \in BOOLEAN :
            WrapHtml(RenderScreen(ui.view, in_alternate_screen).html,
                     blink).body = ui.frames[n].page.body

\* C30 witness: with blink disabled the cursor on a red "b" was drawn as a
\* block with a red background and the base background as its foreground
C30_Witness ==
    /\ Len(ui.frames) > 0 /\ ~ui.cursor_blink
    /\ ui.frames[1].page.blink_rule = "animation: none"
    /\ \E k \in 1..Len(ui.frames[1].page.body) :
          \E i \in 1..(Len(ui.frames[1].page.body[k]) - 1) :
              /\ ui.frames[1].page.body[k][i] =
                    <<"cursor-block",
                      <<<<"background-color", <<12, 12, 0, 0, 0, 0>>>>,
                        <<"color", <<0, 0, 0, 0, 0, 0>>>>>>>>
              /\ ui.frames[1].page.body[k][i + 1] = <<"text", "b">>

\* C31: a resize request with a positive viewport and character cells of at
\* least one pixel records cols = max(2, floor(width / char width) - 1) and
\* rows = max(2, floor(height / char height)); the sizes held by the PTY and
\* by the screen are never below 2.
C31_GeometryComputation ==
    LET v == ui.resize.viewport
        quotient_cols == CHOOSE q \in 0..v.vw :
                             q * v.cw <= v.vw /\ v.vw < (q + 1) * v.cw
        quotient_rows == CHOOSE q \in 0..v.vh :
                             q * v.ch <= v.vh /\ v.vh < (q + 1) * v.ch
    IN  /\ (ui.resize.n > 0 /\ v.cw >= 1 /\ v.ch >= 1) =>
              /\ cols = (IF quotient_cols - 1 < 2 THEN 2 ELSE quotient_cols - 1)
              /\ rows = (IF quotient_rows < 2 THEN 2 ELSE quotient_rows)
        /\ cols >= 2 /\ rows >= 2
        /\ pty_winsize[1] >= 2 /\ pty_winsize[2] >= 2
        /\ screen_size[1] >= 2 /\ screen_size[2] >= 2

\* C31 witness: a resize whose width quotient is clamped to 2 columns and
\* whose height does not divide evenly, passed on to the PTY and the screen
C31_Witness ==
    /\ ui.resize.n > 0 /\ ui.resize.changed
    /\ ui.resize.viewport = [vw |-> 12, vh |-> 390, cw |-> 8, ch |-> 16]
    /\ cols = 2 /\ rows = 24
    /\ pty_winsize = <<24, 2>> /\ screen_size = <<24, 2>>

\* C32: the input caret offset published by a render pass is never smaller
\* than the one published before it.
C32_CaretOffsetMonotone ==
    [][obs'.input_start_position >= obs.input_start_position]_vars

\* C33: once the pump has ended and closeEvent has returned, the chunks
\* emitted to the consumer, concatenated, are the pieces the pump read, each
\* once and in the order read.
C33_ExactlyOnceDelivery ==
    (pc = "done" /\ gui_pc = "closed") =>
        EmittedSeq = [i \in 1..n_read |-> i]

\* C34: every piece appended to the pump's buffer is eventually emitted to
\* the consumer, whatever the child does afterwards, as long as the pump and
\* the event loop keep running.
C34_EventualEmission ==
    \A i \in 1..MaxReads :
        (i \in Ids(output_buffer)) ~> (i \in EmittedIds)

\* C35: after a byte stream has been handed to append_output in two chunks,
\* application_mode and in_alternate_screen are what they are after the same
\* stream handed over in one chunk, wherever the stream was cut.
C35_ChunkingIndependence ==
    ui.done = 2 =>
        /\ application_mode =
               ModeAfter(Scanned(ui.stream, 0), ui.mode_at_start)
        /\ in_alternate_screen =
               AltAfter(Scanned(ui.stream, 0), ui.alt_at_start)

\* what C36 says of one call of append_output(text) whose only alternate-screen
\* marker is an exit marker
ExitTransition(text) ==
    (Contains(text, "X") /\ ~Contains(text, "E")) =>
        /\ IF alt_history_marker # None
              THEN /\ Len(history_top') =
                          Min(Len(history_top), alt_history_marker[1])
                   /\ Len(history_bottom') =
                          Min(Len(history_bottom), alt_history_marker[2])
                   /\ history_top' = SubSeq(history_top, 1, Len(history_top'))
                   /\ history_bottom' =
                          SubSeq(history_bottom, 1, Len(history_bottom'))
              ELSE /\ history_top' = history_top
                   /\ history_bottom' = history_bottom
        /\ alt_history_marker' = None
        /\ ~in_alternate_screen'

C37_RepeatedEntryKeepsSnapshot ==
    [][(/\ deliver
        /\ in_alternate_screen /\ alt_history_marker # None
        /\ Contains(Head(events), "E") /\ ~Contains(Head(events), "X"))
           => alt_history_marker' = alt_history_marker]_vars

\* C38: when the exit marker of a full-screen program is processed, in a
\* later chunk than its one entry marker and with no row printed after the
\* exit marker, history.top holds the rows it held when the entry marker was
\* processed, in the same order.
C38_ScrollbackPreserved ==
    [][(/\ deliver
        /\ Contains(Head(events), "X") /\ ~Contains(Head(events), "E")
        /\ obs.entry_top # <<>> /\ obs.entries_fed = 1 /\ ~obs.late_rows)
           => history_top' = obs.entry_top[1]]_vars

\* the flush condition as C39 states it: the size threshold is reached, or
\* the time since the last flush has reached 5 ms, 3 ms for a buffer above
\* half the size threshold
FlushExpected ==
    \/ StrLen(output_buffer) >= 512
    \/ current_time - last_emit_time >=
           (IF StrLen(output_buffer) > 256 THEN 3 ELSE 5)

\* C39: a non-empty read appends the data to the buffer; the pump then
\* flushes exactly when the size threshold is reached or the time since the
\* last flush has reached the effective time threshold; a flush empties the
\* buffer and makes the time of the read the last-flush time; an empty read
\* neither appends nor flushes.
C39_FlushCondition ==
    /\ [][run_append_store => output_buffer' = output_buffer \o output]_vars
    /\ [][run_cond => ((pc' = "emit") <=> FlushExpected)]_vars
    /\ [][run_emit => events' = Append(events, output_buffer)]_vars
    /\ [][run_clear => (/\ output_buffer' = <<>>
                        /\ clock' - last_emit_time' = clock - current_time)]_vars
    /\ [][(read_empty \/ run_sleep) =>
              (/\ UNCHANGED <<output_buffer, events, last_emit_time>>
               /\ pc' \in {"sleep", "while"})]_vars

\* C39 witness: a buffer of 257 bytes is flushed 3 ms after the last flush,
\* on the lowered threshold
C39_Witness ==
    /\ pc = "emit"
    /\ StrLen(output_buffer) = 257
    /\ current_time - last_emit_time = 3

====
